---- MODULE Spec2Model ----
(***************************************************************************)
(* A model of the getML community engine's propositionalization core:      *)
(*   - the dependency/cache layer (DataFrameTracker, WarningTracker) and   *)
(*     the commands that use it (Pipeline.transform, Pipeline.check),      *)
(*   - the parallel FastProp transform (spawn_threads, build_rows,         *)
(*     make_rownums, cache_to_features, build_row),                        *)
(*   - FastProp's fit with its R-squared feature selection, its column     *)
(*     importances and its enumeration of candidates,                      *)
(*   - the request handlers with the managers and the lock they share.     *)
(* Each part has its own specification over the same variables; the parts  *)
(* that a specification does not drive stay at their initial values.       *)
(***************************************************************************)
EXTENDS Integers, Sequences, FiniteSets, TLC

(***************************************************************************)
(* Bounds of the model.                                                    *)
(***************************************************************************)
\* Largest reading of the wall clock (Poco::Timestamp) the model reaches.
MaxClock == 1
\* Number of concurrently served connections (command threads).
NumCmds == 2
\* Total number of commands started in one behaviour.
MaxRuns == 2
\* Number of fitted pipelines (each has its own fs_fingerprints).
NumPipelines == 1
\* Number of column changes applied to the frames in one behaviour.
MaxMutations == 1

\* Largest number of rows of the population table.
MaxRows == 5
\* Largest number of worker threads (hyperparameter num_threads).
MaxThreads == 2
\* log_iter of build_rows, the number of rows per flush of the batch cache
\* (5000 in the source), scaled down with the row count.
LogIter == 2

\* Largest number of candidate features of a fit.
MaxCandidates == 3
\* Number of distinct R-squared levels above the lowest.
MaxRSquared == 2
\* Largest value of the hyperparameter num_features.
MaxNumFeatures == 2

\* Largest number of features of a container whose importances are inferred.
MaxImpFeatures == 2
\* Largest number of features of its subfeature container.
MaxSubFeatures == 1
\* Largest importance factor of a feature.
MaxImportance == 1

\* Largest number of time stamp columns of a table.
MaxTimeStamps == 1
\* Largest number of columns of one kind of the peripheral table.
MaxColumns == 1

\* Total number of connections the request handlers accept in one behaviour.
MaxRequests == 2

\* Largest number of rows of the frame a preprocessor is applied to.
MaxFrameRows == 2
\* Largest number of column additions and removals applied to one frame
MaxFrameOps == 3
\* Largest number of rows of the column a CategoryTrimmer is fitted on
MaxTrimRows == 4
\* Largest max_num_categories and min_freq of a CategoryTrimmer
MaxNumCategories == 2
MaxMinFreq == 2

None == "none"

Cmds == 1..NumCmds
Pipelines == 1..NumPipelines

\* The frames of the process-wide map: the two inputs of a transform and the
\* frame a transform stores its features in (df_name_).
POPULATION == "population"
PERIPHERAL == "peripheral"
FEATURES == "features"
InputFrames == {POPULATION, PERIPHERAL}
FrameNames == {POPULATION, PERIPHERAL, FEATURES}

VARIABLES
  \* ---- cache layer and commands ----
  now,             \* the wall clock read by update_last_change
  data_frames,     \* the process-wide map name -> DataFrame
  pairs_,          \* DataFrameTracker::pairs_: b_hash -> <<name, last_change>>
  registered,      \* history: b_hash -> the build history add() hashed
  stale,           \* history: keys whose input frames changed after add()
  warning_tracker, \* WarningTracker: the warning fingerprints it holds
  pc,              \* per command thread: its position
  cmd_pipeline,    \* per command thread: the pipeline the command names
  build_history,   \* per command thread: the build history / fingerprint
  hit,             \* per command thread: the key retrieve() answered with
  readers,         \* ReadWriteLock: command threads holding a read lock
  weak_writer,     \* ReadWriteLock: holder of the weak write lock, or 0
  fastprop_runs,   \* number of times FastProp was executed by a transform
  num_runs,        \* commands started so far
  num_mutations,   \* column changes applied so far
  \* ---- FastProp::transform and its worker threads ----
  population_nrows,\* _params.population_.nrows()
  rownums_,        \* _rownums: <<>> for nullptr, <<v>> for the vector v
  num_threads,     \* get_num_threads()
  index_,          \* _params.index_: the selected feature indices
  features,        \* the shared feature matrix: <<row, col>> -> value
  written_by,      \* history: row -> the threads that wrote it
  main_pc,         \* position of the thread that called transform
  propagated,      \* the exception transform propagates: <<>> or <<e>>
  thread_pc,       \* per worker thread: its position in build_rows
  thread_i,        \* per worker thread: the loop counter i of build_rows
  thread_cache,    \* per worker thread: the batch cache of build_rows
  thread_exc,      \* per worker thread: the exception it raised, if any
  num_completed,   \* the atomic counter of completed rows
  log,             \* the messages passed to the logger
  \* ---- FastProp::fit ----
  r_squared_,      \* the R-squared of every candidate, in enumeration order
  num_features_,   \* hyperparameters().num_features()
  as_subfeatures_, \* fit's _as_subfeatures
  abstract_features_, \* FastProp::abstract_features_: candidate indices
  fit_pc,          \* position of fit
  \* ---- FastProp::column_importances ----
  fl_,             \* the fitted container and its subfeature container
  importance_factors_, \* _importance_factors, one per feature
  importances_,    \* the map column_importances returns
  imp_pc,          \* position of column_importances
  \* ---- FastProp::fit_on_peripheral ----
  aggregation_,    \* hyperparameters().aggregation()
  population_ts_,  \* _population.num_time_stamps()
  peripheral_ts_,  \* _peripheral.num_time_stamps()
  num_categoricals_, \* _peripheral.num_categoricals()
  num_discretes_,  \* _peripheral.num_discretes()
  num_numericals_, \* _peripheral.num_numericals()
  candidates_,     \* the enumerated candidates, in order
  enum_pc,         \* position of the enumeration
  \* ---- the request handlers and the managers they call ----
  writer,          \* ReadWriteLock: holder of exclusive write access, or 0
  pipelines_,      \* the process-wide map name -> Pipeline (its version)
  shutdown_,       \* RequestHandler::shutdown_, the process-wide flag
  srv_pc,          \* per connection thread: its position in the handler
  srv_cmd,         \* per connection thread: the command it received
  srv_result,      \* per connection thread: the answer it sent last
  local_df,        \* per connection thread: the frame built outside the map
  shutdown_received, \* history: a shutdown command came in from localhost
  num_requests,    \* connections accepted so far
  srv_peer,        \* per thread: the peer address of its latest connection
  \* ---- the preprocessors ----
  heap,            \* the storage of the columns: storage number -> values
  pp_df,           \* the input frame of the preprocessor
  pp_kind,         \* which preprocessor is applied
  pp_params,       \* what the preprocessor was fitted or configured with
  pp_result,       \* the frame it returns: <<>> or <<df>>
  pp_pc,           \* position of the call
  \* ---- one frame under column additions and removals ----
  fr_heap,         \* the storage of the columns
  fr_df,           \* the frame
  fr_thrown,       \* whether the latest operation raised an exception
  fr_ops,          \* operations applied so far
  \* ---- a preprocessor that is fitted and applied again later ----
  ft_heap,         \* the storage of the columns
  ft_df,           \* the frame fit_transform is called with
  ft_later_df,     \* the frame a later transform is called with
  ft_kind,         \* which preprocessor it is
  ft_hyper,        \* its hyperparameters
  ft_fitted,       \* what the preprocessor holds after the fit
  ft_result,       \* the frame fit_transform returns: <<>> or <<df>>
  ft_later_result, \* the frame the later transform returns: <<>> or <<df>>
  ft_pc            \* position of the calls

cache_vars == <<now, data_frames, pairs_, registered, stale, warning_tracker,
                pc, cmd_pipeline, build_history, hit, readers, weak_writer,
                fastprop_runs, num_runs, num_mutations>>

transform_vars == <<population_nrows, rownums_, num_threads, index_,
                    features, written_by, main_pc, propagated,
                    thread_pc, thread_i, thread_cache, thread_exc,
                    num_completed, log>>

fit_vars == <<r_squared_, num_features_, as_subfeatures_, abstract_features_,
              fit_pc>>

importance_vars == <<fl_, importance_factors_, importances_, imp_pc>>

enumeration_vars == <<aggregation_, population_ts_, peripheral_ts_,
                      num_categoricals_, num_discretes_, num_numericals_,
                      candidates_, enum_pc>>

server_vars == <<writer, pipelines_, shutdown_, srv_pc, srv_cmd, srv_result,
                local_df, shutdown_received, num_requests, srv_peer>>

preprocess_vars == <<heap, pp_df, pp_kind, pp_params, pp_result, pp_pc>>

frame_vars == <<fr_heap, fr_df, fr_thrown, fr_ops>>

fitted_vars == <<ft_heap, ft_df, ft_later_df, ft_kind, ft_hyper, ft_fitted,
                 ft_result, ft_later_result, ft_pc>>

vars == <<cache_vars, transform_vars, fit_vars, importance_vars,
          enumeration_vars, server_vars, preprocess_vars, frame_vars,
          fitted_vars>>

\* What the actions of one part leave alone.
not_cache_vars == <<frame_vars, fitted_vars, transform_vars, fit_vars, importance_vars, enumeration_vars, server_vars, preprocess_vars>>
not_transform_vars == <<frame_vars, fitted_vars, cache_vars, fit_vars, importance_vars, enumeration_vars, server_vars, preprocess_vars>>
not_fit_vars == <<frame_vars, fitted_vars, cache_vars, transform_vars, importance_vars, enumeration_vars, server_vars, preprocess_vars>>
not_importance_vars == <<frame_vars, fitted_vars, cache_vars, transform_vars, fit_vars, enumeration_vars, server_vars, preprocess_vars>>
not_enumeration_vars == <<frame_vars, fitted_vars, cache_vars, transform_vars, fit_vars, importance_vars, server_vars, preprocess_vars>>
\* The request handlers share the clock, the frames and the lock with the
\* cache layer and leave the rest of it alone.
not_frame_vars == <<cache_vars, transform_vars, fit_vars, importance_vars, enumeration_vars, server_vars, preprocess_vars, fitted_vars>>
not_fitted_vars == <<cache_vars, transform_vars, fit_vars, importance_vars, enumeration_vars, server_vars, preprocess_vars, frame_vars>>
not_preprocess_vars == <<frame_vars, fitted_vars, cache_vars, transform_vars, fit_vars, importance_vars, enumeration_vars, server_vars>>
not_server_vars == <<frame_vars, fitted_vars, transform_vars, fit_vars, importance_vars, enumeration_vars, preprocess_vars, pairs_, registered, stale, warning_tracker, pc, cmd_pipeline, build_history, hit, fastprop_runs, num_runs, num_mutations, now>>

(***************************************************************************)
(* containers::DataFrame                                                   *)
(***************************************************************************)

\* DataFrame::update_last_change: records the current time and drops the
\* build history (an optional is a sequence of length 0 or 1).
update_last_change(df) ==
  [df EXCEPT !.build_history_ = <<>>, !.last_change_ = now]

\* The DataFrame constructors: an empty, unfrozen frame whose last change is
\* the time of construction.
NewDataFrame(name) ==
  update_last_change([name_ |-> name, last_change_ |-> 0, frozen_ |-> FALSE,
                      build_history_ |-> <<>>, ncols |-> 0])

\* DataFrame::fingerprint: identifies a frame by its name and last change.
fingerprint(df) == <<df.name_, df.last_change_>>

\* DataFrame::set_build_history
set_build_history(df, bh) == [df EXCEPT !.build_history_ = <<bh>>]

(***************************************************************************)
(* engine::dependency::DataFrameTracker                                    *)
(***************************************************************************)

\* Code of a frame name inside a serialised build history.
NameCode(name) ==
  CASE name = POPULATION -> 1
    [] name = PERIPHERAL -> 2
    [] OTHER -> 3

\* json::to_json of a build history: the dependencies followed by the
\* fingerprint (name, last_change) of every data frame. Never empty.
to_json(bh) ==
  <<bh.dependencies_>> \o
  <<NameCode(bh.df_fingerprints_[1][1]), bh.df_fingerprints_[1][2],
    NameCode(bh.df_fingerprints_[2][1]), bh.df_fingerprints_[2][2]>>

\* Radix of the string hash of the model.
HashBase == 7

RECURSIVE HashFrom(_, _)
HashFrom(h, s) ==
  IF s = <<>> THEN h ELSE HashFrom(h * HashBase + Head(s) + 1, Tail(s))

\* std::hash<std::string>: within the bounds of the model no two serialised
\* build histories collide, and none collides with the empty string.
Hash(s) == HashFrom(0, s)

\* DataFrameTracker::make_build_history
make_build_history(dependencies, population_df, peripheral_df) ==
  [dependencies_ |-> dependencies,
   df_fingerprints_ |-> <<fingerprint(population_df),
                          fingerprint(peripheral_df)>>]

\* DataFrameTracker::get_df on a tracker map p and a frame map dfs: the name
\* of the live frame designated by the hash, or None.
get_df(p, dfs, b_hash) ==
  IF b_hash \notin DOMAIN p THEN None
  ELSE LET name == p[b_hash][1]
           last_change == p[b_hash][2]
       IN IF name \notin DOMAIN dfs THEN None
          ELSE IF dfs[name].last_change_ # last_change THEN None
          ELSE name

\* DataFrameTracker::clean_up: drops every key whose frame is gone or changed.
clean_up(p, dfs) ==
  LET keep == {k \in DOMAIN p : get_df(p, dfs, k) # None}
  IN [k \in keep |-> p[k]]

\* A variant of add_key that hashes the empty string, as retrieve does.
add_key_empty_string(df) == Hash(<<>>)

\* The key under which DataFrameTracker::add files a frame.
add_key(df) == Hash(to_json(df.build_history_[1]))

\* DataFrameTracker::add: clean_up, then insert_or_assign under the hash of
\* the frame's serialised build history.
add(p, dfs, df) ==
  LET cleaned == clean_up(p, dfs)
      b_hash == add_key(df)
  IN [k \in (DOMAIN cleaned) \cup {b_hash} |->
        IF k = b_hash THEN <<df.name_, df.last_change_>> ELSE cleaned[k]]

\* The string DataFrameTracker::retrieve hashes: the serialisation of the
\* build history is commented out (a TODO), the string is empty.
retrieve_b_str(bh) == <<>>

\* DataFrameTracker::retrieve
retrieve(p, dfs, bh) == get_df(p, dfs, Hash(retrieve_b_str(bh)))

(***************************************************************************)
(* engine::dependency::Tracker<communication::Warnings> (WarningTracker)   *)
(***************************************************************************)

\* Tracker::retrieve: the artefact stored under the fingerprint, if any.
tracker_retrieve(tracker, fp) == fp \in tracker

\* Tracker::add: stores the artefact under its fingerprint.
tracker_add(tracker, fp) == tracker \cup {fp}

(***************************************************************************)
(* multithreading::ReadWriteLock: any number of readers; one weak writer   *)
(* at a time, who shares with readers until it upgrades; the upgrade waits *)
(* until no reader is left.                                                *)
(***************************************************************************)

CanReadLock == TRUE
CanWeakWriteLock == weak_writer = 0
CanUpgrade(c) == weak_writer = c /\ readers \subseteq {c}
\* A WriteLock is a weak write lock upgraded at once.
CanWriteLock == weak_writer = 0 /\ readers = {}

(***************************************************************************)
(* The state after construction.                                           *)
(***************************************************************************)

InitFrame(name) ==
  [name_ |-> name, last_change_ |-> 0, frozen_ |-> FALSE,
   build_history_ |-> <<>>, ncols |-> 0]

CacheInit ==
  /\ now = 0
  /\ data_frames = [n \in InputFrames |-> InitFrame(n)]
  /\ pairs_ = <<>>
  /\ registered = <<>>
  /\ stale = {}
  /\ warning_tracker = {}
  /\ pc = [c \in Cmds |-> "idle"]
  /\ cmd_pipeline = [c \in Cmds |-> 1]
  /\ build_history = [c \in Cmds |-> <<>>]
  /\ hit = [c \in Cmds |-> None]
  /\ readers = {}
  /\ weak_writer = 0
  /\ fastprop_runs = 0
  /\ num_runs = 0
  /\ num_mutations = 0

(***************************************************************************)
(* The wall clock and the column commands                                  *)
(***************************************************************************)

\* Time passes between two readings of Poco::Timestamp.
Tick ==
  /\ now < MaxClock
  /\ now' = now + 1
  /\ UNCHANGED <<not_cache_vars, data_frames, pairs_, registered, stale, warning_tracker, pc,
                 cmd_pipeline, build_history, hit, readers, weak_writer,
                 fastprop_runs, num_runs, num_mutations>>

\* DataFrame::add_column followed by update_last_change.
add_column(df) == update_last_change([df EXCEPT !.ncols = @ + 1])

\* A column command (ColumnManager::add_float_column on an existing frame)
\* changes a column of a frame in place, under the write lock.
MutateFrame(n) ==
  /\ n \in DOMAIN data_frames
  /\ CanWriteLock
  /\ ~data_frames[n].frozen_
  /\ num_mutations < MaxMutations
  /\ num_mutations' = num_mutations + 1
  /\ data_frames' = [data_frames EXCEPT ![n] = add_column(@)]
  /\ stale' = IF n \in InputFrames THEN DOMAIN pairs_ ELSE stale
  /\ UNCHANGED <<not_cache_vars, now, pairs_, registered, warning_tracker, pc, cmd_pipeline,
                 build_history, hit, readers, weak_writer, fastprop_runs,
                 num_runs>>

\* A DataFrame.delete command removes the stored feature frame from the map.
DeleteFrame ==
  /\ FEATURES \in DOMAIN data_frames
  /\ CanWriteLock
  /\ data_frames' = [n \in DOMAIN data_frames \ {FEATURES} |-> data_frames[n]]
  /\ UNCHANGED <<not_cache_vars, now, pairs_, registered, stale, warning_tracker, pc,
                 cmd_pipeline, build_history, hit, readers, weak_writer,
                 fastprop_runs, num_runs, num_mutations>>

(***************************************************************************)
(* Pipeline.transform                                                      *)
(***************************************************************************)

\* PipelineManager::transform begins: the command names a fitted pipeline
\* and may store a frame, so it takes the weak write lock.
StartTransform(c, p) ==
  /\ pc[c] = "idle"
  /\ num_runs < MaxRuns
  /\ CanWeakWriteLock
  /\ weak_writer' = c
  /\ pc' = [pc EXCEPT ![c] = "t_start"]
  /\ cmd_pipeline' = [cmd_pipeline EXCEPT ![c] = p]
  /\ build_history' = [build_history EXCEPT ![c] = <<>>]
  /\ hit' = [hit EXCEPT ![c] = None]
  /\ num_runs' = num_runs + 1
  /\ UNCHANGED <<not_cache_vars, now, data_frames, pairs_, registered, stale, warning_tracker,
                 readers, fastprop_runs, num_mutations>>

\* transform::make_features, first half: retrieve from the DataFrameTracker;
\* a hit is answered from the cached frame (retrieve_features_from_cache), a
\* miss goes on to make_autofeatures.
MakeFeaturesRetrieve(c) ==
  /\ pc[c] = "t_start"
  /\ LET bh == make_build_history(cmd_pipeline[c], data_frames[POPULATION],
                                  data_frames[PERIPHERAL])
         df == retrieve(pairs_, data_frames, bh)
     IN /\ build_history' = [build_history EXCEPT ![c] = <<bh>>]
        /\ hit' = [hit EXCEPT ![c] = df]
        /\ pc' = [pc EXCEPT ![c] = IF df # None THEN "t_cached"
                                   ELSE "t_building"]
  /\ UNCHANGED <<not_cache_vars, now, data_frames, pairs_, registered, stale, warning_tracker,
                 cmd_pipeline, readers, weak_writer, fastprop_runs, num_runs, num_mutations>>

\* transform::make_features, second half: make_autofeatures runs FastProp.
MakeFeaturesBuild(c) ==
  /\ pc[c] = "t_building"
  /\ fastprop_runs' = fastprop_runs + 1
  /\ pc' = [pc EXCEPT ![c] = "t_built"]
  /\ UNCHANGED <<not_cache_vars, now, data_frames, pairs_, registered, stale, warning_tracker,
                 cmd_pipeline, build_history, hit, readers, weak_writer,
                 num_runs, num_mutations>>

\* PipelineManager::to_df: a new frame named df_name_ holding the features.
to_df == add_column(NewDataFrame(FEATURES))

\* PipelineManager::transform ends: to_df, add_to_tracker (set_build_history
\* and DataFrameTracker::add), store_df under the upgraded lock, unlock.
StoreDf(c) ==
  /\ pc[c] \in {"t_built", "t_cached"}
  /\ CanUpgrade(c)
  /\ LET bh == make_build_history(cmd_pipeline[c], data_frames[POPULATION],
                                  data_frames[PERIPHERAL])
         df == set_build_history(to_df, bh)
         new_pairs == add(pairs_, data_frames, df)
     IN /\ pairs_' = new_pairs
        /\ registered' = [k \in DOMAIN new_pairs |->
                            IF k = add_key(df) THEN bh ELSE registered[k]]
        /\ stale' = (stale \cap DOMAIN new_pairs) \ {add_key(df)}
        /\ data_frames' = [n \in DOMAIN data_frames \cup {FEATURES} |->
                             IF n = FEATURES THEN df ELSE data_frames[n]]
  /\ weak_writer' = 0
  /\ pc' = [pc EXCEPT ![c] = "idle"]
  /\ build_history' = [build_history EXCEPT ![c] = <<>>]
  /\ hit' = [hit EXCEPT ![c] = None]
  /\ UNCHANGED <<not_cache_vars, now, warning_tracker, cmd_pipeline, readers, fastprop_runs,
                 num_runs, num_mutations>>

(***************************************************************************)
(* Pipeline.check                                                          *)
(***************************************************************************)

\* PipelineManager::check begins: the command only reads the maps, so it
\* holds the lock in read mode.
StartCheck(c, p) ==
  /\ pc[c] = "idle"
  /\ num_runs < MaxRuns
  /\ CanReadLock
  /\ readers' = readers \cup {c}
  /\ pc' = [pc EXCEPT ![c] = "c_start"]
  /\ cmd_pipeline' = [cmd_pipeline EXCEPT ![c] = p]
  /\ build_history' = [build_history EXCEPT ![c] = <<>>]
  /\ hit' = [hit EXCEPT ![c] = None]
  /\ num_runs' = num_runs + 1
  /\ UNCHANGED <<not_cache_vars, now, data_frames, pairs_, registered, stale, warning_tracker,
                 weak_writer, fastprop_runs, num_mutations>>

\* check::check, first half: build the warning fingerprint and retrieve the
\* warnings; on a hit they are sent and the command returns.
CheckRetrieve(c) ==
  /\ pc[c] = "c_start"
  /\ LET warning_fingerprint ==
           make_build_history(cmd_pipeline[c], data_frames[POPULATION],
                              data_frames[PERIPHERAL])
         retrieved == tracker_retrieve(warning_tracker, warning_fingerprint)
     IN /\ build_history' = [build_history EXCEPT ![c] =
                               IF retrieved THEN <<>>
                               ELSE <<warning_fingerprint>>]
        /\ pc' = [pc EXCEPT ![c] = IF retrieved THEN "idle" ELSE "c_checking"]
        /\ readers' = IF retrieved THEN readers \ {c} ELSE readers
  /\ UNCHANGED <<not_cache_vars, now, data_frames, pairs_, registered, stale, warning_tracker,
                 cmd_pipeline, hit, weak_writer, fastprop_runs, num_runs, num_mutations>>

\* check::check, second half: data_model_checking::check has run; the
\* warnings are sent and added to the WarningTracker.
CheckFinish(c) ==
  /\ pc[c] = "c_checking"
  /\ warning_tracker' = tracker_add(warning_tracker, build_history[c][1])
  /\ readers' = readers \ {c}
  /\ pc' = [pc EXCEPT ![c] = "idle"]
  /\ build_history' = [build_history EXCEPT ![c] = <<>>]
  /\ UNCHANGED <<not_cache_vars, now, data_frames, pairs_, registered, stale, cmd_pipeline,
                 hit, weak_writer, fastprop_runs, num_runs, num_mutations>>

(***************************************************************************)
(* Claims about the cache layer (checked under Spec)                       *)
(***************************************************************************)

\* The command has been through DataFrameTracker::retrieve.
Retrieved(c) == pc[c] \in {"t_cached", "t_building", "t_built"}

\* The tracker holds a live, fresh registration of exactly this build
\* history: add() filed it, its feature frame is still in the map with the
\* recorded last_change, and no input frame changed since.
LiveRegistration(bh) ==
  LET k == Hash(to_json(bh))
  IN /\ k \in DOMAIN pairs_
     /\ registered[k] = bh
     /\ k \notin stale
     /\ get_df(pairs_, data_frames, k) # None

\* C1: once a transform has registered its feature frame, a later transform
\* with the same dependencies and the same unmodified population and
\* peripheral frames gets the frame back from retrieve and does not run
\* FastProp again.
C1_SecondTransformHitsCache ==
  \A c \in Cmds :
    (Retrieved(c) /\ LiveRegistration(build_history[c][1]))
      => pc[c] = "t_cached"

\* The expensive computation of an artefact is running in command c.
Building(c) == pc[c] \in {"t_building", "c_checking"}

\* C2: for any fingerprint at most one build of the artefact is in progress:
\* two commands never run the expensive computation of the same artefact at
\* the same time.
C2_AtMostOneBuildPerFingerprint ==
  \A c1, c2 \in Cmds :
    (c1 # c2 /\ Building(c1) /\ Building(c2) /\ pc[c1] = pc[c2])
      => build_history[c1] # build_history[c2]

Fin(v) == <<"fin", v>>
NaN == <<"nan", 0>>
PosInf == <<"inf", 1>>
NegInf == <<"inf", -1>>
Unwritten == <<"unwritten", 0>>

isnan(x) == x[1] = "nan"
isinf(x) == x[1] = "inf"

Min(a, b) == IF a < b THEN a ELSE b

(***************************************************************************)
(* The input of a transform: the matches of every population row and the   *)
(* fitted abstract features.                                               *)
(***************************************************************************)

COUNT == "COUNT"
SUM == "SUM"
MAX == "MAX"

\* FastProp::abstract_features(): the fitted features, by position.
abstract_features == <<COUNT, SUM, MAX>>

\* The values of the aggregated peripheral column over the matches of a
\* population row: no match, finite values, a null value, infinities.
MatchPatterns ==
  << <<>>, <<Fin(1), Fin(2)>>, <<NaN>>, <<PosInf, Fin(1)>>, <<PosInf, NegInf>> >>

make_matches(rownum) == MatchPatterns[(rownum % Len(MatchPatterns)) + 1]

\* The values _params.index_ is drawn from.
Indexes == {<<>>, <<2>>, <<3, 1>>}

NotNaN(x) == ~isnan(x)
Has(s, x) == \E k \in DOMAIN s : s[k] = x

RECURSIVE SumFinite(_)
SumFinite(s) ==
  IF s = <<>> THEN 0
  ELSE (IF Head(s)[1] = "fin" THEN Head(s)[2] ELSE 0) + SumFinite(Tail(s))

MaxFinite(s) ==
  LET fs == {s[k][2] : k \in {k \in DOMAIN s : s[k][1] = "fin"}}
  IN  CHOOSE m \in fs : \A v \in fs : v <= m

\* Aggregator::apply_aggregation: COUNT is the number of matches; the value
\* aggregations skip NaNs and yield NaN over an empty set.
apply_aggregation(agg, matches) ==
  LET vals == SelectSeq(matches, NotNaN)
  IN  IF agg = COUNT THEN Fin(Len(matches))
      ELSE IF vals = <<>> THEN NaN
      ELSE IF agg = SUM
      THEN IF Has(vals, PosInf) /\ Has(vals, NegInf) THEN NaN
           ELSE IF Has(vals, PosInf) THEN PosInf
           ELSE IF Has(vals, NegInf) THEN NegInf
           ELSE Fin(SumFinite(vals))
      ELSE IF Has(vals, PosInf) THEN PosInf
           ELSE IF \A k \in DOMAIN vals : vals[k] = NegInf THEN NegInf
           ELSE Fin(MaxFinite(vals))

(***************************************************************************)
(* FastProp::build_row                                                     *)
(***************************************************************************)

\* A write that only replaces NaN.
finite_or_zero_nan_only(value) == IF isnan(value) THEN Fin(0) ELSE value

\* _row[i] = (std::isnan(value) || std::isinf(value)) ? 0.0 : value
finite_or_zero(value) ==
  IF isnan(value) \/ isinf(value) THEN Fin(0) ELSE value

\* The row build_row writes for one population row: one value per entry of
\* the index.
build_row(index, rownum) ==
  [i \in 1..Len(index) |->
     finite_or_zero(apply_aggregation(abstract_features[index[i]],
                                      make_matches(rownum)))]

(***************************************************************************)
(* FastProp::make_rownums                                                  *)
(***************************************************************************)

RECURSIVE calc_rows_per_thread_loop(_, _, _)
calc_rows_per_thread_loop(rows_per_thread, nrows, nthreads) ==
  LET remaining == nrows - rows_per_thread * nthreads
      next == rows_per_thread + (remaining \div nthreads)
  IN  IF remaining < nthreads THEN next
      ELSE calc_rows_per_thread_loop(next, nrows, nthreads)

calc_rows_per_thread(nrows, nthreads) ==
  calc_rows_per_thread_loop(0, nrows, nthreads)

\* std::iota over a vector of n elements, starting at begin.
iota(n, begin) == [k \in 1..n |-> begin + k - 1]

\* A partition in which the last thread gets a range like the others.
make_rownums_equal_ranges(thread_num, nrows_, rownums, nthreads) ==
  LET nrows == IF Len(rownums) = 1 THEN Len(rownums[1]) ELSE nrows_
      rows_per_thread == calc_rows_per_thread(nrows, nthreads)
      begin == thread_num * rows_per_thread
      end == (thread_num + 1) * rows_per_thread
  IN  IF Len(rownums) = 1 THEN SubSeq(rownums[1], begin + 1, end)
      ELSE iota(end - begin, begin)

\* The row numbers of one thread: a slice of the sampled row numbers, or a
\* range of the population rows.
make_rownums(thread_num, nrows_, rownums, nthreads) ==
  LET nrows == IF Len(rownums) = 1 THEN Len(rownums[1]) ELSE nrows_
      rows_per_thread == calc_rows_per_thread(nrows, nthreads)
      begin == thread_num * rows_per_thread
      end == IF thread_num < nthreads - 1
             THEN (thread_num + 1) * rows_per_thread
             ELSE nrows
  IN  IF Len(rownums) = 1 THEN SubSeq(rownums[1], begin + 1, end)
      ELSE iota(end - begin, begin)

(***************************************************************************)
(* FastProp::cache_to_features                                             *)
(***************************************************************************)

\* The number of cache rows cache_to_features copies.
cache_nrows(rownums, begin, cache, ncols) ==
  Min(Len(cache) \div ncols, Len(rownums) - begin)

\* The rows of the feature matrix the copy assigns.
copied_rows(rownums, begin, cache, ncols) ==
  {rownums[begin + i + 1] : i \in 0..(cache_nrows(rownums, begin, cache, ncols) - 1)}

\* A variant of cache_to_features that numbers the rows it assigns from the
\* shared counter of completed rows instead of the thread's own row numbers.
cache_to_features_by_completed(rownums, begin, cache, feats, ncols) ==
  LET nrows == cache_nrows(rownums, begin, cache, ncols)
  IN  [c \in DOMAIN feats |->
         IF c[1] \in num_completed..(num_completed + nrows - 1)
         THEN cache[(c[1] - num_completed) * ncols + (c[2] - 1) + 1]
         ELSE feats[c]]

\* _features->at(rownum, j) = _cache[i * ncols + j]
cache_to_features(rownums, begin, cache, feats, ncols) ==
  LET nrows == cache_nrows(rownums, begin, cache, ncols)
  IN  [c \in DOMAIN feats |->
         IF \E i \in 0..(nrows - 1) : rownums[begin + i + 1] = c[1]
         THEN LET i == CHOOSE i \in 0..(nrows - 1) : rownums[begin + i + 1] = c[1]
              IN  cache[i * ncols + (c[2] - 1) + 1]
         ELSE feats[c]]

(***************************************************************************)
(* FastProp::transform, spawn_threads and build_rows                       *)
(***************************************************************************)

Threads == 0..(MaxThreads - 1)
Spawned == 0..(num_threads - 1)

\* e.what() of the exception build_row raises in a thread, and of the one
\* transform raises for an empty population table.
BuildRowError(t) == <<"build_row", t>>
NoDataError == <<"no_data", 0>>

\* The log lines: progress (rows completed, percent), other messages.
ProgressMsg(completed, percent) == <<"progress", completed, percent>>
BuildingMsg == <<"building", 0, 0>>

\* FastProp::log_progress
log_progress(lg, nrows, completed) ==
  lg \cup {ProgressMsg(completed, (completed * 100) \div nrows)}

\* nrows of build_rows: the number of rows the whole transform processes.
total_nrows == IF Len(rownums_) = 1 THEN Len(rownums_[1]) ELSE population_nrows

ncols == Len(index_)

\* rownums of build_rows: the partition of thread t.
thread_rownums(t) == make_rownums(t, population_nrows, rownums_, num_threads)

RECURSIVE SetToSeq(_)
SetToSeq(S) ==
  IF S = {} THEN <<>>
  ELSE LET m == CHOOSE m \in S : \A x \in S : m <= x
       IN  <<m>> \o SetToSeq(S \ {m})

\* A transform that has not been called.
TransformIdle ==
  /\ features = <<>>
  /\ main_pc = "start"
  /\ propagated = <<>>
  /\ thread_pc = [t \in Threads |-> "unspawned"]
  /\ thread_i = [t \in Threads |-> 0]
  /\ thread_cache = [t \in Threads |-> <<>>]
  /\ thread_exc = [t \in Threads |-> <<>>]
  /\ num_completed = 0
  /\ log = {}

\* The inputs of a transform: a population table, no row numbers or a sorted
\* subset of its rows (sample_from_population, make_subfeature_rownums), the
\* number of threads and the index.
TransformInputs ==
  /\ population_nrows \in 0..MaxRows
  /\ rownums_ \in {<<>>} \cup
       {<<SetToSeq(S)>> : S \in SUBSET (0..(population_nrows - 1))}
  /\ num_threads \in 1..MaxThreads
  /\ index_ \in Indexes
  /\ written_by = [r \in 0..(population_nrows - 1) |-> {}]

\* The part of the state a specification of another part keeps fixed.
TransformUnused ==
  /\ population_nrows = 0
  /\ rownums_ = <<>>
  /\ num_threads = 1
  /\ index_ = <<>>
  /\ written_by = <<>>
  /\ TransformIdle

\* FastProp::transform up to the call of spawn_threads.
transform ==
  /\ main_pc = "start"
  /\ IF population_nrows = 0
     THEN /\ main_pc' = "thrown"
          /\ propagated' = <<NoDataError>>
          /\ UNCHANGED <<features, log>>
     ELSE /\ main_pc' = "transform"
          /\ log' = log \cup {BuildingMsg}
          /\ features' = [c \in (0..(population_nrows - 1)) \X (1..ncols) |->
                            Unwritten]
          /\ UNCHANGED propagated
  /\ UNCHANGED <<not_transform_vars, population_nrows, rownums_, num_threads,
                 index_, written_by, thread_pc, thread_i, thread_cache,
                 thread_exc, num_completed>>

\* spawn_threads: the threads 1..num_threads-1 are started, execute_task(0)
\* runs in the caller.
spawn_threads ==
  /\ main_pc = "transform"
  /\ main_pc' = "spawned"
  /\ num_completed' = 0
  /\ thread_pc' = [t \in Threads |-> IF t \in Spawned THEN "ready"
                                      ELSE "unspawned"]
  /\ UNCHANGED <<not_transform_vars, population_nrows, rownums_, num_threads,
                 index_, written_by, features, propagated, thread_i,
                 thread_cache, thread_exc, log>>

\* build_rows up to its loop: the early return, the partition, the cache.
build_rows_begin(t) ==
  /\ thread_pc[t] = "ready"
  /\ IF ncols = 0
     THEN /\ thread_pc' = [thread_pc EXCEPT ![t] = "done"]
          /\ UNCHANGED thread_cache
     ELSE /\ thread_pc' = [thread_pc EXCEPT ![t] = "loop"]
          /\ thread_cache' = [thread_cache EXCEPT ![t] =
               [k \in 1..(Min(LogIter, Len(thread_rownums(t))) * ncols) |->
                  Fin(0)]]
  /\ thread_i' = [thread_i EXCEPT ![t] = 0]
  /\ UNCHANGED <<not_transform_vars, population_nrows, rownums_, num_threads,
                 index_, written_by, features, main_pc, propagated,
                 thread_exc, num_completed, log>>

\* The cache after build_row has written the row of iteration i.
cache_with_row(cache, i, row) ==
  LET offset == ncols * (i % LogIter)
  IN  [k \in 1..Len(cache) |->
         IF k - 1 \in offset..(offset + ncols - 1) THEN row[k - offset]
         ELSE cache[k]]

\* One iteration of the loop of build_rows: the flush of a full cache, the
\* progress, and build_row, which may raise.
build_rows_iteration(t, throws) ==
  LET rownums == thread_rownums(t)
      i == thread_i[t]
      flush == i % LogIter = 0 /\ i # 0
      completed == IF flush THEN num_completed + LogIter ELSE num_completed
  IN  /\ thread_pc[t] = "loop"
      /\ i < Len(rownums)
      /\ features' = IF flush
                     THEN cache_to_features(rownums, i - LogIter,
                                            thread_cache[t], features, ncols)
                     ELSE features
      /\ written_by' = IF flush
                       THEN [r \in DOMAIN written_by |->
                               IF r \in copied_rows(rownums, i - LogIter,
                                                    thread_cache[t], ncols)
                               THEN written_by[r] \cup {t}
                               ELSE written_by[r]]
                       ELSE written_by
      /\ num_completed' = completed
      /\ log' = IF flush /\ t = 0
                THEN log_progress(log, total_nrows, completed)
                ELSE log
      /\ IF throws
         THEN /\ thread_exc' = [thread_exc EXCEPT ![t] = <<BuildRowError(t)>>]
              /\ thread_pc' = [thread_pc EXCEPT ![t] = "failed"]
              /\ UNCHANGED <<thread_cache, thread_i>>
         ELSE /\ thread_cache' = [thread_cache EXCEPT ![t] =
                   cache_with_row(@, i, build_row(index_, rownums[i + 1]))]
              /\ thread_i' = [thread_i EXCEPT ![t] = i + 1]
              /\ UNCHANGED <<thread_exc, thread_pc>>
      /\ UNCHANGED <<not_transform_vars, population_nrows, rownums_,
                     num_threads, index_, main_pc, propagated>>

\* begin of the copy that follows the loop of build_rows.
last_begin(size) == IF size > LogIter THEN size - (size % LogIter) ELSE 0

\* build_rows after its loop: the last copy and the last count.
build_rows_end(t) ==
  LET rownums == thread_rownums(t)
      begin == last_begin(Len(rownums))
  IN  /\ thread_pc[t] = "loop"
      /\ thread_i[t] = Len(rownums)
      /\ features' = cache_to_features(rownums, begin, thread_cache[t],
                                       features, ncols)
      /\ written_by' = [r \in DOMAIN written_by |->
                          IF r \in copied_rows(rownums, begin,
                                               thread_cache[t], ncols)
                          THEN written_by[r] \cup {t}
                          ELSE written_by[r]]
      /\ num_completed' = num_completed + (total_nrows % LogIter)
      /\ thread_pc' = [thread_pc EXCEPT ![t] = "done"]
      /\ UNCHANGED <<not_transform_vars, population_nrows, rownums_,
                     num_threads, index_, main_pc, propagated, thread_i,
                     thread_cache, thread_exc, log>>

\* A variant of join_threads that hands the exception of thread 0 to the
\* caller without waiting for the other threads.
join_threads_after_thread_0 ==
  /\ main_pc = "spawned"
  /\ thread_pc[0] \in {"done", "failed"}
  /\ thread_pc[0] = "done" => \A t \in Spawned : thread_pc[t] \in {"done", "failed"}
  /\ IF thread_pc[0] = "failed"
     THEN /\ main_pc' = "thrown"
          /\ propagated' = thread_exc[0]
          /\ UNCHANGED log
     ELSE /\ main_pc' = "returned"
          /\ log' = log_progress(log, 100, 100)
          /\ UNCHANGED propagated
  /\ UNCHANGED <<not_transform_vars, population_nrows, rownums_, num_threads,
                 index_, written_by, features, thread_pc, thread_i,
                 thread_cache, thread_exc, num_completed>>

\* spawn_threads after execute_task(0): the joins, then the exception of
\* thread 0 or the last progress line; transform returns the matrix.
join_threads ==
  /\ main_pc = "spawned"
  /\ \A t \in Spawned : thread_pc[t] \in {"done", "failed"}
  /\ IF thread_pc[0] = "failed"
     THEN /\ main_pc' = "thrown"
          /\ propagated' = thread_exc[0]
          /\ UNCHANGED log
     ELSE /\ main_pc' = "returned"
          /\ log' = log_progress(log, 100, 100)
          /\ UNCHANGED propagated
  /\ UNCHANGED <<not_transform_vars, population_nrows, rownums_, num_threads,
                 index_, written_by, features, thread_pc, thread_i,
                 thread_cache, thread_exc, num_completed>>

TransformNext ==
  \/ transform
  \/ spawn_threads
  \/ \E t \in Threads : build_rows_begin(t)
  \/ \E t \in Threads, throws \in BOOLEAN : build_rows_iteration(t, throws)
  \/ \E t \in Threads : build_rows_end(t)
  \/ join_threads

(***************************************************************************)
(* FastProp::fit and its feature selection.  A candidate is named by its   *)
(* position in the enumeration (1 is the first candidate).                 *)
(***************************************************************************)

\* The positions of a vector, in order.
positions(v) == [k \in 1..Len(v) |-> k]

RECURSIVE remove_first(_, _)
remove_first(s, x) ==
  IF s = <<>> THEN <<>>
  ELSE IF Head(s) = x THEN Tail(s)
  ELSE <<Head(s)>> \o remove_first(Tail(s), x)

\* std::ranges::sort(r_squared, std::ranges::greater())
RECURSIVE sort_greater(_)
sort_greater(s) ==
  IF s = <<>> THEN <<>>
  ELSE LET m == CHOOSE m \in {s[k] : k \in DOMAIN s} :
                  \A k \in DOMAIN s : s[k] <= m
       IN  <<m>> \o sort_greater(remove_first(s, m))

\* calc_threshold: r_squared.at(num_features) of the sorted vector.
calc_threshold(r_squared, num_features) ==
  sort_greater(r_squared)[num_features + 1]

\* A selection that also keeps the candidates at the threshold.
select_features_at_least(r_squared, num_features) ==
  IF Len(r_squared) <= num_features THEN positions(r_squared)
  ELSE LET threshold == calc_threshold(r_squared, num_features)
           r_at_least_threshold(ix) == r_squared[ix] >= threshold
       IN  SelectSeq(positions(r_squared), r_at_least_threshold)

\* select_features: all candidates if they are at most num_features, else
\* those with an R-squared greater than the threshold.
select_features(r_squared, num_features) ==
  IF Len(r_squared) <= num_features THEN positions(r_squared)
  ELSE LET threshold == calc_threshold(r_squared, num_features)
           r_greater_threshold(ix) == r_squared[ix] > threshold
       IN  SelectSeq(positions(r_squared), r_greater_threshold)

\* The sequences over S of a length up to n.
RECURSIVE SeqsUpTo(_, _)
SeqsUpTo(S, n) ==
  IF n = 0 THEN {<<>>}
  ELSE LET shorter == SeqsUpTo(S, n - 1)
       IN  shorter \cup {Append(s, x) : s \in shorter, x \in S}

\* The inputs of a fit: the R-squared of the enumerated candidates, the
\* hyperparameter, and whether the fit is that of a subfeature container.
FitInputs ==
  /\ r_squared_ \in SeqsUpTo(0..MaxRSquared, MaxCandidates)
  /\ num_features_ \in 1..MaxNumFeatures
  /\ as_subfeatures_ \in BOOLEAN

FitIdle ==
  /\ abstract_features_ = <<>>
  /\ fit_pc = "start"

FitUnused ==
  /\ r_squared_ = <<>>
  /\ num_features_ = 1
  /\ as_subfeatures_ = FALSE
  /\ FitIdle

\* FastProp::fit: the candidates are enumerated, then selected unless the
\* container is fitted as subfeatures.
fit ==
  /\ fit_pc = "start"
  /\ abstract_features_' = IF as_subfeatures_ THEN positions(r_squared_)
                           ELSE select_features(r_squared_, num_features_)
  /\ fit_pc' = "done"
  /\ UNCHANGED <<not_fit_vars, r_squared_, num_features_, as_subfeatures_>>

FitNext == fit

(***************************************************************************)
(* FastProp::column_importances and infer_importance.  An importance is   *)
(* counted in halves of the unit, so that the factor 0.5 of the           *)
(* same-units features is exact.                                           *)
(***************************************************************************)

\* helpers::ColumnDescription: marker, table and column name.
ColumnDescription(marker, table, name) == <<marker, table, name>>
PERIPHERAL_MARKER == "[PERIPHERAL]"
POPULATION_MARKER == "[POPULATION]"

\* An abstract feature, as far as infer_importance reads it.
AbstractFeature(data_used, input_col, output_col) ==
  [data_used_ |-> data_used, input_col_ |-> input_col,
   output_col_ |-> output_col]

\* The features of a container without subfeatures.
LeafFeatures ==
  {AbstractFeature(d, 0, 0) : d \in {"numerical", "same_units_numerical", "na"}}

\* The features of a container over a subfeature container of n features.
FeaturesOver(n) ==
  LeafFeatures \cup {AbstractFeature("subfeatures", k, 0) : k \in 0..(n - 1)}

\* A FastProp container: its features, the names of its population and
\* peripheral schema and its subfeature container, if any.
Container(fs, population, peripheral, sub) ==
  [features_ |-> fs, population_ |-> population, peripheral_ |-> peripheral,
   subfeatures_ |-> sub]

\* _importance_factor * 0.5
half(x) == x \div 2

\* ImportanceMaker::add_to_importances
add_to_importances(importances, desc, value) ==
  IF desc \in DOMAIN importances
  THEN [importances EXCEPT ![desc] = @ + value]
  ELSE [d \in DOMAIN importances \cup {desc} |->
          IF d = desc THEN value ELSE importances[d]]

RECURSIVE add_all(_, _)
add_all(importances, pairs) ==
  IF pairs = <<>> THEN importances
  ELSE add_all(add_to_importances(importances, Head(pairs)[1], Head(pairs)[2]),
               Tail(pairs))

\* The entries of a map, as a sequence of pairs.
RECURSIVE pairs_of(_)
pairs_of(importances) ==
  IF DOMAIN importances = {} THEN <<>>
  ELSE LET d == CHOOSE d \in DOMAIN importances : TRUE
           rest == [e \in DOMAIN importances \ {d} |-> importances[e]]
       IN  <<<<d, importances[d]>>>> \o pairs_of(rest)

\* ImportanceMaker::transfer_population: what is marked population is added
\* to the equivalent column marked peripheral.
RECURSIVE transfer_pairs(_)
transfer_pairs(pairs) ==
  IF pairs = <<>> THEN <<>>
  ELSE LET d == Head(pairs)[1]
       IN  <<<<ColumnDescription(PERIPHERAL_MARKER, d[2], d[3]),
               Head(pairs)[2]>>>> \o transfer_pairs(Tail(pairs))

transfer_population(importances) ==
  add_all(<<>>, transfer_pairs(pairs_of(importances)))

\* An inference that gives a same-units feature to its peripheral column
\* only.
infer_importance_one_column(fl, feature_num, importance_factor) ==
  LET f == fl.features_[feature_num + 1]
      peripheral_col ==
        ColumnDescription(PERIPHERAL_MARKER, fl.peripheral_, "numerical")
  IN  IF f.data_used_ = "numerical"
      THEN <<<<peripheral_col, importance_factor>>>>
      ELSE IF f.data_used_ = "same_units_numerical"
      THEN <<<<peripheral_col, half(importance_factor)>>>>
      ELSE <<>>

\* infer_importance: the pairs it returns.  A feature over subfeatures
\* returns none, and neither does one that uses no column ("na").
infer_importance(fl, feature_num, importance_factor) ==
  LET f == fl.features_[feature_num + 1]
      peripheral_col ==
        ColumnDescription(PERIPHERAL_MARKER, fl.peripheral_, "numerical")
      population_col ==
        ColumnDescription(POPULATION_MARKER, fl.population_, "numerical")
  IN  IF f.data_used_ = "numerical"
      THEN <<<<peripheral_col, importance_factor>>>>
      ELSE IF f.data_used_ = "same_units_numerical"
      THEN <<<<peripheral_col, half(importance_factor)>>,
             <<population_col, half(importance_factor)>>>>
      ELSE <<>>

\* infer_importance: what it adds to the factors of the subfeatures.
infer_subimportance(fl, feature_num, importance_factor, subfactors) ==
  LET f == fl.features_[feature_num + 1]
  IN  IF f.data_used_ = "subfeatures"
      THEN [subfactors EXCEPT ![f.input_col_ + 1] = @ + importance_factor]
      ELSE subfactors

\* init_subimportance_factors: one zero per feature of the subcontainer.
init_subimportance_factors(fl) ==
  IF Len(fl.subfeatures_) = 0 THEN <<>>
  ELSE [k \in 1..Len(fl.subfeatures_[1].features_) |-> 0]

\* The first loop of column_importances, from feature i on.
RECURSIVE infer_all(_, _, _, _, _)
infer_all(fl, factors, i, importances, subfactors) ==
  IF i >= Len(factors)
  THEN [importances_ |-> importances, subfactors_ |-> subfactors]
  ELSE infer_all(fl, factors, i + 1,
                 add_all(importances, infer_importance(fl, i, factors[i + 1])),
                 infer_subimportance(fl, i, factors[i + 1], subfactors))

\* FastProp::column_importances
RECURSIVE column_importances(_, _, _)
column_importances(fl, importance_factors, is_subfeatures) ==
  LET own == infer_all(fl, importance_factors, 0, <<>>,
                       init_subimportance_factors(fl))
      with_sub ==
        IF Len(fl.subfeatures_) = 0 THEN own.importances_
        ELSE add_all(own.importances_,
                     pairs_of(column_importances(fl.subfeatures_[1],
                                                 own.subfactors_, TRUE)))
  IN  IF is_subfeatures THEN transfer_population(with_sub) ELSE with_sub

\* The vectors over S with the length n.
RECURSIVE SeqsOfLen(_, _)
SeqsOfLen(S, n) ==
  IF n = 0 THEN {<<>>}
  ELSE {Append(s, x) : s \in SeqsOfLen(S, n - 1), x \in S}

\* The subfeature containers: none, or one over the peripheral table.
SubContainers ==
  {<<>>} \cup
  {<<Container(fs, PERIPHERAL, "subperipheral", <<>>)>> :
     fs \in SeqsUpTo(LeafFeatures, MaxSubFeatures) \ {<<>>}}

\* The fitted containers.
Containers ==
  UNION {{Container(fs, POPULATION, PERIPHERAL, sub) :
            fs \in SeqsUpTo(FeaturesOver(IF Len(sub) = 0 THEN 0
                                         ELSE Len(sub[1].features_)),
                            MaxImpFeatures)} : sub \in SubContainers}

\* The inputs of column_importances: a fitted container and one importance
\* factor per feature.
ImportanceInputs ==
  /\ fl_ \in Containers
  /\ importance_factors_ \in
       SeqsOfLen({2 * k : k \in 0..MaxImportance}, Len(fl_.features_))

ImportanceIdle ==
  /\ importances_ = <<>>
  /\ imp_pc = "start"

ImportanceUnused ==
  /\ fl_ = Container(<<>>, POPULATION, PERIPHERAL, <<>>)
  /\ importance_factors_ = <<>>
  /\ ImportanceIdle

\* The call of column_importances on the top container.
column_importances_call ==
  /\ imp_pc = "start"
  /\ importances_' = column_importances(fl_, importance_factors_, FALSE)
  /\ imp_pc' = "done"
  /\ UNCHANGED <<not_importance_vars, fl_, importance_factors_>>

ImportanceNext == column_importances_call

(***************************************************************************)
(* FastProp::fit_on_peripheral: the enumeration of the candidates for one  *)
(* population/peripheral pair, under one (empty) set of conditions.        *)
(***************************************************************************)

COUNT_DISTINCT == "COUNT DISTINCT"
FIRST == "FIRST"
LAST == "LAST"
TREND == "TREND"
AVG_TIME_BETWEEN == "AVG TIME BETWEEN"

\* The aggregations hyperparameters().aggregation() is drawn from, in the
\* order they are listed.
Aggregations == <<COUNT, COUNT_DISTINCT, SUM, FIRST, LAST, TREND>>

\* A candidate, as far as the enumeration sets it.
Candidate(agg, data_used, input_col) ==
  [aggregation_ |-> agg, data_used_ |-> data_used, input_col_ |-> input_col]

\* FastProp::is_categorical
is_categorical(agg) == agg = COUNT_DISTINCT

\* FastProp::is_numerical
is_numerical(agg) == agg # COUNT

\* Aggregator::is_first_last: the aggregations anchored in time.
is_first_last(agg) == agg \in {FIRST, LAST, TREND}

\* A check that looks at the peripheral table only.
skip_first_last_peripheral_only(agg, population_ts, peripheral_ts) ==
  IF ~is_first_last(agg) THEN FALSE ELSE peripheral_ts = 0

\* FastProp::skip_first_last
skip_first_last(agg, population_ts, peripheral_ts) ==
  IF ~is_first_last(agg) THEN FALSE
  ELSE population_ts = 0 \/ peripheral_ts = 0

\* FastProp::has_count
has_count(aggs) == \E k \in DOMAIN aggs : aggs[k] = COUNT

\* The candidates one input column gets in fit_on_categoricals.
categorical_candidates(aggs, input_col) ==
  LET cands == [k \in DOMAIN aggs |-> Candidate(aggs[k], "categorical", input_col)]
      kept(c) == is_categorical(c.aggregation_)
  IN  SelectSeq(cands, kept)

\* The candidates one input column gets in fit_on_discretes and
\* fit_on_numericals.
numerical_candidates(aggs, data_used, input_col, population_ts, peripheral_ts) ==
  LET cands == [k \in DOMAIN aggs |-> Candidate(aggs[k], data_used, input_col)]
      kept(c) == /\ is_numerical(c.aggregation_)
                 /\ ~skip_first_last(c.aggregation_, population_ts,
                                     peripheral_ts)
  IN  SelectSeq(cands, kept)

\* fit_on_categoricals over the columns from input_col on.
RECURSIVE fit_on_categoricals(_, _, _)
fit_on_categoricals(aggs, num_categoricals, input_col) ==
  IF input_col >= num_categoricals THEN <<>>
  ELSE categorical_candidates(aggs, input_col) \o
       fit_on_categoricals(aggs, num_categoricals, input_col + 1)

\* fit_on_discretes and fit_on_numericals over the columns from input_col on.
RECURSIVE fit_on_numericals(_, _, _, _, _, _)
fit_on_numericals(aggs, data_used, num_cols, input_col, population_ts, peripheral_ts) ==
  IF input_col >= num_cols THEN <<>>
  ELSE numerical_candidates(aggs, data_used, input_col, population_ts,
                            peripheral_ts) \o
       fit_on_numericals(aggs, data_used, num_cols, input_col + 1,
                         population_ts, peripheral_ts)

\* FastProp::fit_on_peripheral for a peripheral table with categorical,
\* discrete and numerical columns (no same-units pairs, no subfeatures).
fit_on_peripheral(aggs, population_ts, peripheral_ts, num_categoricals, num_discretes, num_numericals) ==
  fit_on_categoricals(aggs, num_categoricals, 0) \o
  fit_on_numericals(aggs, "discrete", num_discretes, 0, population_ts,
                    peripheral_ts) \o
  fit_on_numericals(aggs, "numerical", num_numericals, 0, population_ts,
                    peripheral_ts) \o
  (IF peripheral_ts > 0 THEN <<Candidate(AVG_TIME_BETWEEN, "na", 0)>>
   ELSE <<>>) \o
  (IF has_count(aggs) THEN <<Candidate(COUNT, "na", 0)>> ELSE <<>>)

\* The inputs of the enumeration: the hyperparameter aggregation and the
\* shape of the two tables.
EnumerationInputs ==
  /\ aggregation_ \in
       {SelectSeq(Aggregations, LAMBDA a : a \in S) :
          S \in SUBSET {Aggregations[k] : k \in DOMAIN Aggregations}}
  /\ population_ts_ \in 0..MaxTimeStamps
  /\ peripheral_ts_ \in 0..MaxTimeStamps
  /\ num_categoricals_ \in 0..MaxColumns
  /\ num_discretes_ \in 0..MaxColumns
  /\ num_numericals_ \in 0..MaxColumns

EnumerationIdle ==
  /\ candidates_ = <<>>
  /\ enum_pc = "start"

EnumerationUnused ==
  /\ aggregation_ = <<>>
  /\ population_ts_ = 0
  /\ peripheral_ts_ = 0
  /\ num_categoricals_ = 0
  /\ num_discretes_ = 0
  /\ num_numericals_ = 0
  /\ EnumerationIdle

\* The call of fit_on_peripheral in fit.
fit_on_peripheral_call ==
  /\ enum_pc = "start"
  /\ candidates_' = fit_on_peripheral(aggregation_, population_ts_,
                                      peripheral_ts_, num_categoricals_,
                                      num_discretes_, num_numericals_)
  /\ enum_pc' = "done"
  /\ UNCHANGED <<not_enumeration_vars, aggregation_, population_ts_,
                 peripheral_ts_, num_categoricals_, num_discretes_,
                 num_numericals_>>

EnumerationNext == fit_on_peripheral_call

(***************************************************************************)
(* The request handlers: RequestHandler::run and the managers behind it    *)
(* (ColumnManager, PipelineManager, ProjectManager), each connection on a  *)
(* thread of its own, all sharing one ReadWriteLock.                       *)
(***************************************************************************)

\* The types of the commands of the model.
SHUTDOWN == "shutdown"
IS_ALIVE == "is_alive"
ADD_FLOAT_COLUMN == "FloatColumn"
AGGREGATE == "FloatColumn.aggregate"
FREEZE == "DataFrame.freeze"
GET_PIPELINE == "Pipeline.to_sql"
FIT == "Pipeline.fit"
ADD_PIPELINE == "Pipeline"

\* The alternatives of commands::FeatureLearner.
FASTPROP == "FastProp"
NotSupportedInCommunity == {"Fastboost", "Multirel", "Relboost", "RelMT"}
FeatureLearner == {FASTPROP} \cup NotSupportedInCommunity

\* The answers a connection gets.
SUCCESS == "Success!"
FOUND == "Found!"
ILLEGAL_CONNECTION == "Illegal connection attempt"
PARSE_ERROR == "parse error"
FRAME_FROZEN == "The DataFrame has been frozen"
NOT_FOUND == "does not exist"
NOT_SUPPORTED == "not supported in the community edition"
CRASH == "crash"

LOCALHOST == "127.0.0.1"
Hosts == {LOCALHOST, "10.0.0.1"}

\* A command: its type and the fields its handler reads.
Command(type, df_name, name, fl) ==
  [type_ |-> type, df_name_ |-> df_name, name_ |-> name,
   feature_learner_ |-> fl]

NoCommand == Command(None, None, None, None)

\* The names of the pipelines of the model.
PipelineNames == {"pipeline"}

\* The commands a client can send.
Commands ==
  {Command(t, None, None, None) : t \in {SHUTDOWN, IS_ALIVE, AGGREGATE}}
  \cup {Command(ADD_FLOAT_COLUMN, n, None, None) : n \in {POPULATION, FEATURES}}
  \cup {Command(FREEZE, POPULATION, None, None)}
  \cup {Command(t, None, p, None) : t \in {GET_PIPELINE, ADD_PIPELINE},
                                    p \in PipelineNames}
  \cup {Command(FIT, None, p, fl) : p \in PipelineNames, fl \in FeatureLearner}

\* The tagged union RequestHandler::run parses the command into: database,
\* data frame, pipeline and project commands. The basic commands is_alive,
\* monitor_url and shutdown are no alternatives of it.
RunCommandTypes ==
  {ADD_FLOAT_COLUMN, AGGREGATE, FREEZE, GET_PIPELINE, FIT, ADD_PIPELINE}

\* A pipeline of the map, fitted or not.
Pipeline(fitted) == [fitted_ |-> fitted]

\* A variant of check_if_frozen that never throws.
check_if_frozen_never(df) == FALSE

\* DataFrame::check_if_frozen: whether it throws.
check_if_frozen(df) == df.frozen_

\* DataFrame::freeze
freeze(df) == [df EXCEPT !.frozen_ = TRUE]

\* A ReadLock waits while a writer has exclusive access.
CanReadLockNow == writer = 0

\* Thread c answers and its connection ends, the command with it; its locks
\* are released by unlock() or by the destructors of the lock guards.
Answer(c, result) ==
  /\ srv_result' = [srv_result EXCEPT ![c] = result]
  /\ srv_cmd' = [srv_cmd EXCEPT ![c] = NoCommand]
  /\ srv_pc' = [srv_pc EXCEPT ![c] = "idle"]
  /\ readers' = readers \ {c}
  /\ weak_writer' = IF weak_writer = c THEN 0 ELSE weak_writer
  /\ writer' = IF writer = c THEN 0 ELSE writer

\* Thread c moves on to position p.
Goto(c, p) == srv_pc' = [srv_pc EXCEPT ![c] = p]

\* A variant of run that serves a connection without looking at the address
\* of its peer.
run_any_peer(c, host, cmd) ==
  /\ srv_pc[c] = "idle"
  /\ \A d \in Cmds : d < c => srv_pc[d] # "idle"
  /\ num_requests < MaxRequests
  /\ num_requests' = num_requests + 1
  /\ srv_peer' = [srv_peer EXCEPT ![c] = host]
  /\ shutdown_received' =
       (shutdown_received \/ cmd.type_ = SHUTDOWN)
  /\ IF cmd.type_ \notin RunCommandTypes
       THEN Answer(c, PARSE_ERROR)
       ELSE /\ Goto(c, cmd.type_)
            /\ srv_cmd' = [srv_cmd EXCEPT ![c] = cmd]
            /\ srv_result' = [srv_result EXCEPT ![c] = None]
            /\ UNCHANGED <<readers, weak_writer, writer>>
  /\ UNCHANGED <<not_server_vars, data_frames, pipelines_, shutdown_, local_df>>

\* RequestHandler::run: refuses peers other than localhost, receives the
\* command and parses it; a parse failure is logged and answered with the
\* error. Setting the shutdown flag is commented out, and a shutdown command
\* is no alternative of the union. The parsed command goes to its handler.
\* A connection is served by the first thread that is free.
run(c, host, cmd) ==
  /\ srv_pc[c] = "idle"
  /\ \A d \in Cmds : d < c => srv_pc[d] # "idle"
  /\ num_requests < MaxRequests
  /\ num_requests' = num_requests + 1
  /\ srv_peer' = [srv_peer EXCEPT ![c] = host]
  /\ shutdown_received' =
       (shutdown_received \/ (host = LOCALHOST /\ cmd.type_ = SHUTDOWN))
  /\ IF host # LOCALHOST
       THEN Answer(c, ILLEGAL_CONNECTION)
       ELSE IF cmd.type_ \notin RunCommandTypes
              THEN Answer(c, PARSE_ERROR)
              ELSE /\ Goto(c, cmd.type_)
                   /\ srv_cmd' = [srv_cmd EXCEPT ![c] = cmd]
                   /\ srv_result' = [srv_result EXCEPT ![c] = None]
                   /\ UNCHANGED <<readers, weak_writer, writer>>
  /\ UNCHANGED <<not_server_vars, data_frames, pipelines_, shutdown_, local_df>>

\* ColumnManager::add_float_column, up to the call of
\* recv_and_add_float_column: takes the weak write lock and looks the frame
\* up; a frame that does not exist is constructed outside the map.
add_float_column_begin(c) ==
  /\ srv_pc[c] = ADD_FLOAT_COLUMN
  /\ CanWeakWriteLock
  /\ weak_writer' = c
  /\ local_df' = [local_df EXCEPT ![c] =
       IF srv_cmd[c].df_name_ \in DOMAIN data_frames
         THEN <<>> ELSE <<NewDataFrame(srv_cmd[c].df_name_)>>]
  /\ Goto(c, "recv_and_add_float_column")
  /\ UNCHANGED <<not_server_vars, srv_peer, data_frames, readers, writer, pipelines_,
                 shutdown_, srv_cmd, srv_result, shutdown_received, num_requests>>

\* DataFrame::add_float_column: fails on a frozen frame, otherwise adds the
\* column and updates last_change.
add_float_column(df) == IF check_if_frozen(df) THEN <<>> ELSE <<add_column(df)>>

\* DataFrameManager::recv_and_add_float_column: receives the column,
\* upgrades the weak write lock it was handed and adds the column to the
\* frame, which is the frame of the map or the new frame.
recv_and_add_float_column(c) ==
  /\ srv_pc[c] = "recv_and_add_float_column"
  /\ CanUpgrade(c)
  /\ LET name == srv_cmd[c].df_name_
         df == IF Len(local_df[c]) = 0 THEN data_frames[name]
               ELSE local_df[c][1]
         added == add_float_column(df)
     IN IF Len(added) = 0
          THEN /\ Answer(c, FRAME_FROZEN)
               /\ UNCHANGED <<data_frames, local_df>>
          ELSE /\ writer' = c
               /\ Goto(c, "add_float_column_end")
               /\ IF Len(local_df[c]) = 0
                    THEN /\ data_frames' = [data_frames EXCEPT ![name] = added[1]]
                         /\ UNCHANGED local_df
                    ELSE /\ local_df' = [local_df EXCEPT ![c] = added]
                         /\ UNCHANGED data_frames
               /\ UNCHANGED <<readers, weak_writer, srv_result, srv_cmd>>
  /\ UNCHANGED <<not_server_vars, srv_peer, pipelines_, shutdown_, shutdown_received,
                 num_requests>>

\* The frame map after `data_frames()[df_name] = new_df` and create_indices.
insert_df(dfs, df) ==
  [n \in DOMAIN dfs \cup {df.name_} |-> IF n = df.name_ THEN df ELSE dfs[n]]

\* A variant of add_float_column_end that may put the new frame into the map
\* while the weak write lock has not been upgraded yet.
add_float_column_end_before_upgrade(c) ==
  /\ \/ /\ srv_pc[c] = "recv_and_add_float_column"
        /\ Len(local_df[c]) = 1
        /\ data_frames' = insert_df(data_frames, add_column(local_df[c][1]))
     \/ /\ srv_pc[c] = "add_float_column_end"
        /\ data_frames' = IF Len(local_df[c]) = 0 THEN data_frames
                          ELSE insert_df(data_frames, local_df[c][1])
  /\ local_df' = [local_df EXCEPT ![c] = <<>>]
  /\ Answer(c, SUCCESS)
  /\ UNCHANGED <<not_server_vars, srv_peer, pipelines_, shutdown_, shutdown_received, num_requests>>

\* ColumnManager::add_float_column after recv_and_add_float_column: a new
\* frame is put into the map and indexed; then the lock is released and
\* success is reported.
add_float_column_end(c) ==
  /\ srv_pc[c] = "add_float_column_end"
  /\ data_frames' = IF Len(local_df[c]) = 0 THEN data_frames
                    ELSE insert_df(data_frames, local_df[c][1])
  /\ local_df' = [local_df EXCEPT ![c] = <<>>]
  /\ Answer(c, SUCCESS)
  /\ UNCHANGED <<not_server_vars, srv_peer, pipelines_, shutdown_, shutdown_received, num_requests>>

\* ColumnManager::aggregate takes a read lock ...
aggregate_begin(c) ==
  /\ srv_pc[c] = AGGREGATE
  /\ CanReadLockNow
  /\ readers' = readers \cup {c}
  /\ Goto(c, "aggregate")
  /\ UNCHANGED <<not_server_vars, srv_peer, data_frames, weak_writer, writer, pipelines_,
                 shutdown_, srv_cmd, srv_result, local_df, shutdown_received, num_requests>>

\* ... reads the frames of the map, releases the lock and answers.
aggregate_end(c) ==
  /\ srv_pc[c] = "aggregate"
  /\ Answer(c, SUCCESS)
  /\ UNCHANGED <<not_server_vars, srv_peer, data_frames, pipelines_, shutdown_, local_df, shutdown_received, num_requests>>

\* DataFrame.freeze: freezes the frame of the map under a write lock.
freeze_df(c) ==
  /\ srv_pc[c] = FREEZE
  /\ CanWriteLock
  /\ IF srv_cmd[c].df_name_ \in DOMAIN data_frames
       THEN /\ data_frames' = [data_frames EXCEPT ![srv_cmd[c].df_name_] = freeze(@)]
            /\ Answer(c, SUCCESS)
       ELSE /\ Answer(c, NOT_FOUND)
            /\ UNCHANGED data_frames
  /\ UNCHANGED <<not_server_vars, srv_peer, pipelines_, shutdown_, local_df,
                 shutdown_received, num_requests>>

\* A variant of get_pipeline_begin that takes no lock.
get_pipeline_unlocked(c) ==
  /\ srv_pc[c] = GET_PIPELINE
  /\ Goto(c, "get_pipeline")
  /\ UNCHANGED <<not_server_vars, srv_peer, data_frames, readers, weak_writer, writer,
                 pipelines_, shutdown_, srv_cmd, srv_result, local_df,
                 shutdown_received, num_requests>>

\* PipelineManager::get_pipeline and ProjectManager::get_pipeline take a
\* read lock ...
get_pipeline_begin(c) ==
  /\ srv_pc[c] = GET_PIPELINE
  /\ CanReadLockNow
  /\ readers' = readers \cup {c}
  /\ Goto(c, "get_pipeline")
  /\ UNCHANGED <<not_server_vars, srv_peer, data_frames, weak_writer, writer, pipelines_,
                 shutdown_, srv_cmd, srv_result, local_df, shutdown_received, num_requests>>

\* ... and look the pipeline up (utils::Getter::get throws when there is
\* none); the copy is returned and the lock released.
get_pipeline_end(c) ==
  /\ srv_pc[c] = "get_pipeline"
  /\ Answer(c, IF srv_cmd[c].name_ \in DOMAIN pipelines_ THEN FOUND
               ELSE NOT_FOUND)
  /\ UNCHANGED <<not_server_vars, srv_peer, data_frames, pipelines_, shutdown_, local_df, shutdown_received, num_requests>>

\* What FeatureLearnerParser::parse can come to for a description: the
\* visitor returns a FastProp learner for fastprop::Hyperparameters; for
\* the other alternatives it flows off the end of a value-returning lambda,
\* which is undefined: the caller gets an indeterminate reference or the
\* process traps.
parse(fl) ==
  IF fl = FASTPROP THEN {"feature_learner"}
  ELSE {"feature_learner", CRASH}

\* Pipeline.fit builds its feature learners from their descriptions and
\* stores the fitted pipeline with PipelineManager::set_pipeline.
fit_parse(c, outcome) ==
  /\ srv_pc[c] = FIT
  /\ outcome \in parse(srv_cmd[c].feature_learner_)
  /\ IF outcome = "feature_learner"
       THEN /\ Goto(c, "set_pipeline")
            /\ srv_result' = [srv_result EXCEPT ![c] = "feature_learner"]
       ELSE /\ Goto(c, CRASH)
            /\ srv_result' = [srv_result EXCEPT ![c] = outcome]
  /\ UNCHANGED <<not_server_vars, srv_peer, data_frames, readers, weak_writer, writer,
                 pipelines_, shutdown_, srv_cmd, local_df, shutdown_received, num_requests>>

\* PipelineManager::set_pipeline: takes the weak write lock and finds the
\* pipeline, which must exist ...
set_pipeline_begin(c) ==
  /\ srv_pc[c] = "set_pipeline"
  /\ CanWeakWriteLock
  /\ IF srv_cmd[c].name_ \in DOMAIN pipelines_
       THEN /\ weak_writer' = c
            /\ Goto(c, "set_pipeline_upgrade")
            /\ UNCHANGED <<readers, writer, srv_result, srv_cmd>>
       ELSE Answer(c, NOT_FOUND)
  /\ UNCHANGED <<not_server_vars, srv_peer, data_frames, pipelines_, shutdown_, local_df,
                 shutdown_received, num_requests>>

\* ... upgrades the lock ...
set_pipeline_upgrade(c) ==
  /\ srv_pc[c] = "set_pipeline_upgrade"
  /\ CanUpgrade(c)
  /\ writer' = c
  /\ Goto(c, "set_pipeline_assign")
  /\ UNCHANGED <<not_server_vars, srv_peer, data_frames, readers, weak_writer,
                 pipelines_, shutdown_, srv_cmd, srv_result, local_df,
                 shutdown_received, num_requests>>

\* ... and replaces the pipeline by the fitted one.
set_pipeline_assign(c) ==
  /\ srv_pc[c] = "set_pipeline_assign"
  /\ pipelines_' = [pipelines_ EXCEPT ![srv_cmd[c].name_] = Pipeline(TRUE)]
  /\ Answer(c, SUCCESS)
  /\ UNCHANGED <<not_server_vars, srv_peer, data_frames, shutdown_, local_df,
                 shutdown_received, num_requests>>

\* ProjectManager::set_pipeline takes a write lock ...
project_set_pipeline_begin(c) ==
  /\ srv_pc[c] = ADD_PIPELINE
  /\ CanWriteLock
  /\ weak_writer' = c
  /\ writer' = c
  /\ Goto(c, "insert_or_assign")
  /\ UNCHANGED <<not_server_vars, srv_peer, data_frames, readers, pipelines_, shutdown_,
                 srv_cmd, srv_result, local_df, shutdown_received, num_requests>>

\* ... and inserts or replaces the pipeline by the new, unfitted one.
project_set_pipeline_end(c) ==
  /\ srv_pc[c] = "insert_or_assign"
  /\ pipelines_' = [p \in DOMAIN pipelines_ \cup {srv_cmd[c].name_} |->
                      IF p = srv_cmd[c].name_ THEN Pipeline(FALSE)
                      ELSE pipelines_[p]]
  /\ Answer(c, SUCCESS)
  /\ UNCHANGED <<not_server_vars, srv_peer, data_frames, shutdown_, local_df,
                 shutdown_received, num_requests>>

\* The pipelines of the project when the server starts: any of them may
\* have been added before.
ServerInputs ==
  \E ps \in SUBSET PipelineNames : pipelines_ = [p \in ps |-> Pipeline(FALSE)]

ServerIdle ==
  /\ writer = 0
  /\ shutdown_ = FALSE
  /\ srv_pc = [c \in Cmds |-> "idle"]
  /\ srv_cmd = [c \in Cmds |-> NoCommand]
  /\ srv_result = [c \in Cmds |-> None]
  /\ local_df = [c \in Cmds |-> <<>>]
  /\ shutdown_received = FALSE
  /\ num_requests = 0
  /\ srv_peer = [c \in Cmds |-> None]

ServerUnused == ServerIdle /\ pipelines_ = <<>>

ServerNext ==
  \/ \E c \in Cmds, host \in Hosts, cmd \in Commands : run(c, host, cmd)
  \/ \E c \in Cmds : add_float_column_begin(c)
  \/ \E c \in Cmds : recv_and_add_float_column(c)
  \/ \E c \in Cmds : add_float_column_end(c)
  \/ \E c \in Cmds : aggregate_begin(c)
  \/ \E c \in Cmds : aggregate_end(c)
  \/ \E c \in Cmds : freeze_df(c)
  \/ \E c \in Cmds : get_pipeline_begin(c)
  \/ \E c \in Cmds : get_pipeline_end(c)
  \/ \E c \in Cmds, outcome \in {"feature_learner", CRASH} : fit_parse(c, outcome)
  \/ \E c \in Cmds : set_pipeline_begin(c)
  \/ \E c \in Cmds : set_pipeline_upgrade(c)
  \/ \E c \in Cmds : set_pipeline_assign(c)
  \/ \E c \in Cmds : project_set_pipeline_begin(c)
  \/ \E c \in Cmds : project_set_pipeline_end(c)

(***************************************************************************)
(* The preprocessors (CategoryTrimmer, Imputation, Seasonal) applied to    *)
(* one frame. A column is a handle on reference-counted storage: copying   *)
(* a frame copies the handles, not the values they point to.               *)
(***************************************************************************)

ROLE_CATEGORICAL == "categorical"
ROLE_NUMERICAL == "numerical"

CATEGORY_TRIMMER == "CategoryTrimmer"
IMPUTATION == "Imputation"
SEASONAL == "Seasonal"

\* The category that stands for every trimmed value (the code the encoding
\* gives to CategoryTrimmer::TRIMMED): the one after the categories 0, 1, 2.
TRIMMED == 3

\* The columns Seasonal extracts from a time stamp, in the order of
\* fit_transform_df; the year is numerical, the others categorical.
Components == <<"hour", "minute", "month", "weekday", "year">>

\* A column: its name, the number of its storage and its subroles.
Column(name, data) == [name_ |-> name, data_ |-> data, subroles_ |-> {}]

\* Column::set_subroles
set_subroles(col, subroles) == [col EXCEPT !.subroles_ = subroles]

\* helpers::Subrole, by the names SubroleParser::parse knows.
EXCLUDE_PREPROCESSORS == "exclude_preprocessors"
EMAIL_ONLY == "email_only"
SUBSTRING_ONLY == "substring_only"
EXCLUDE_CATEGORY_TRIMMER == "exclude_category_trimmer"
EXCLUDE_IMPUTATION == "exclude_imputation"
EXCLUDE_SEASONAL == "exclude_seasonal"

Subroles ==
  {"comparison_only", "email", EMAIL_ONLY, EXCLUDE_CATEGORY_TRIMMER,
   "exclude_fastprop", "exclude_feature_learners", EXCLUDE_IMPUTATION,
   "exclude_mapping", "exclude_multirel", "exclude_predictors",
   EXCLUDE_PREPROCESSORS, "exclude_relboost", "exclude_relmt",
   EXCLUDE_SEASONAL, "exclude_text_field_splitter", "substring",
   SUBSTRING_ONLY}

\* SubroleParser::parse of the subroles of a column: <<>> stands for the
\* exception an unknown subrole raises.
SubroleParser_parse(column) ==
  IF column \subseteq Subroles THEN <<column>> ELSE <<>>

\* SubroleParser::contains_any: <<>> for the exception of parse.
contains_any(column, targets) ==
  LET parsed == SubroleParser_parse(column)
  IN IF Len(parsed) = 0 THEN <<>>
     ELSE <<\E s \in targets : s \in parsed[1]>>

\* A blacklist without the entry of the preprocessor itself.
blacklist_without_own(kind) ==
  {EXCLUDE_PREPROCESSORS, EMAIL_ONLY, SUBSTRING_ONLY}

\* The blacklist of fit_df and fit_transform_df of each preprocessor.
blacklist(kind) ==
  {EXCLUDE_PREPROCESSORS, EMAIL_ONLY, SUBSTRING_ONLY,
   CASE kind = CATEGORY_TRIMMER -> EXCLUDE_CATEGORY_TRIMMER
     [] kind = IMPUTATION -> EXCLUDE_IMPUTATION
     [] OTHER -> EXCLUDE_SEASONAL}

\* containers::Column(pool, nrows), filled: a column with new storage.
NewColumn(h, name, values) ==
  [heap |-> Append(h, values), col |-> Column(name, Len(h) + 1)]

\* A frame with its columns by role.
Frame(name, frozen, categoricals, numericals, time_stamps) ==
  [name_ |-> name, last_change_ |-> 0, frozen_ |-> frozen,
   build_history_ |-> <<>>, categoricals_ |-> categoricals,
   numericals_ |-> numericals, time_stamps_ |-> time_stamps]

\* All columns of a frame.
df_columns(df) == df.categoricals_ \o df.numericals_ \o df.time_stamps_

\* DataFrame::nrows: the length of the columns, 0 without columns.
df_nrows(h, df) ==
  IF Len(df_columns(df)) = 0 THEN 0 ELSE Len(h[df_columns(df)[1].data_])

\* The columns of a list but the one called name.
without(cols, name) == SelectSeq(cols, LAMBDA c : c.name_ # name)

\* DataFrame::remove_column (the private part: the column leaves its role).
remove_column(df, name) ==
  [df EXCEPT !.categoricals_ = without(@, name),
             !.numericals_ = without(@, name),
             !.time_stamps_ = without(@, name)]

\* A variant of add_to_role that accepts a column of any length.
add_to_role_any_length(h, df, col, role) ==
  IF check_if_frozen(df) THEN <<>>
  ELSE LET removed == remove_column(df, col.name_)
       IN <<update_last_change(
              IF role = ROLE_CATEGORICAL
                THEN [removed EXCEPT !.categoricals_ = Append(@, col)]
                ELSE [removed EXCEPT !.numericals_ = Append(@, col)])>>

\* DataFrame::add_int_column and add_float_column: check_if_frozen, then
\* the template add_column (length check, remove_column, push_back), then
\* update_last_change. <<>> stands for an exception.
add_to_role(h, df, col, role) ==
  IF check_if_frozen(df) THEN <<>>
  ELSE IF Len(h[col.data_]) # df_nrows(h, df) /\ Len(df_columns(df)) # 0
    THEN <<>>
  ELSE LET removed == remove_column(df, col.name_)
       IN <<update_last_change(
              IF role = ROLE_CATEGORICAL
                THEN [removed EXCEPT !.categoricals_ = Append(@, col)]
                ELSE [removed EXCEPT !.numericals_ = Append(@, col)])>>

\* The column of a list called name.
column_named(cols, name) == SelectSeq(cols, LAMBDA c : c.name_ = name)[1]

\* CategoryTrimmer::transform_df, trim_value
trim_value(value, set) == IF value \notin set THEN TRIMMED ELSE value

\* The values of a column, trimmed.
trimmed_values(values, set) ==
  [i \in 1..Len(values) |-> trim_value(values[i], set)]

\* A variant of make_trimmed_column that trims the values of the original
\* column where they are.
make_trimmed_column_in_place(h, orig_col, set) ==
  [heap |-> [h EXCEPT ![orig_col.data_] = trimmed_values(@, set)],
   col |-> orig_col]

\* CategoryTrimmer::transform_df, make_trimmed_column: a new column with
\* the name of the original and its values, trimmed.
make_trimmed_column(h, orig_col, set) ==
  LET made == NewColumn(h, orig_col.name_,
                        trimmed_values(h[orig_col.data_], set))
  IN [heap |-> made.heap, col |-> set_subroles(made.col, orig_col.subroles_)]

\* CategoryTrimmer::transform_df, the loop over the trimmed columns: each
\* is added to the copy df of the input.
RECURSIVE add_trimmed_columns(_, _, _, _, _)
add_trimmed_columns(h, sets, input, df, k) ==
  IF k > Len(sets) \/ Len(df) = 0 THEN [heap |-> h, df |-> df]
  ELSE LET made == make_trimmed_column(
                     h, column_named(input.categoricals_, sets[k].name_),
                     sets[k].set_)
       IN add_trimmed_columns(
            made.heap, sets, input,
            add_to_role(made.heap, df[1], made.col, ROLE_CATEGORICAL), k + 1)

\* CategoryTrimmer::transform_df
CategoryTrimmer_transform_df(h, sets, input) ==
  add_trimmed_columns(h, sets, input, <<input>>, 1)

\* utils::Aggregations::avg over the values that are not NaN.
RECURSIVE sum_and_count(_)
sum_and_count(values) ==
  IF Len(values) = 0 THEN <<0, 0>>
  ELSE LET rest == sum_and_count(Tail(values))
       IN IF isnan(Head(values)) \/ isinf(Head(values)) THEN rest
          ELSE <<rest[1] + Head(values)[2], rest[2] + 1>>

avg(values) ==
  LET sc == sum_and_count(values)
  IN IF sc[2] = 0 THEN NaN ELSE Fin(sc[1] \div sc[2])

\* Imputation::make_name and make_dummy_name
make_name(name) == name \o "__imputed"
make_dummy_name(name) == name \o "__dummy"

\* Imputation::impute: the replacement column gets the values with the
\* NaN replaced; the original leaves the copy, the replacement enters it.
impute(h, original_col, imputation_value, df) ==
  LET values == h[original_col.data_]
      made == NewColumn(h, make_name(original_col.name_),
                [i \in 1..Len(values) |->
                   IF isnan(values[i]) THEN imputation_value ELSE values[i]])
  IN [heap |-> made.heap,
      df |-> IF check_if_frozen(df) THEN <<>>
             ELSE add_to_role(made.heap,
                    update_last_change(remove_column(df, original_col.name_)),
                    made.col, ROLE_NUMERICAL),
      any_imputation |-> \E i \in 1..Len(values) : isnan(values[i])]

\* Imputation::add_dummy
add_dummy(h, original_col, df) ==
  LET values == h[original_col.data_]
      made == NewColumn(h, make_dummy_name(original_col.name_),
                [i \in 1..Len(values) |->
                   IF isnan(values[i]) THEN Fin(1) ELSE Fin(0)])
  IN [heap |-> made.heap,
      df |-> add_to_role(made.heap, df, made.col, ROLE_NUMERICAL)]

\* Imputation::extract_and_add: refuses a column of NaN only or with an
\* infinite value, imputes the mean and adds the dummy if one is needed.
extract_and_add(h, original_col, df, add_dummies) ==
  LET values == h[original_col.data_]
      all_nan == \A i \in 1..Len(values) : isnan(values[i])
      has_inf == \E i \in 1..Len(values) : isinf(values[i])
      imputed == impute(h, original_col, avg(values), df)
      needs_dummy == add_dummies /\ imputed.any_imputation
      added == IF needs_dummy /\ Len(imputed.df) = 1
                 THEN add_dummy(imputed.heap, original_col, imputed.df[1])
                 ELSE [heap |-> imputed.heap, df |-> imputed.df]
  IN IF all_nan \/ has_inf THEN [heap |-> h, df |-> <<>>, cols |-> <<>>]
     ELSE [heap |-> added.heap, df |-> added.df,
           cols |-> <<[name_ |-> original_col.name_, mean_ |-> avg(values),
                       needs_dummy_ |-> needs_dummy]>>]

\* Imputation::fit_transform_df, the loop over the numerical columns of the
\* input, on the copy df: a column with a subrole of the blacklist is
\* skipped; cols is what the preprocessor holds for the columns it fitted.
RECURSIVE impute_columns(_, _, _, _, _)
impute_columns(h, input, df, add_dummies, i) ==
  IF i > Len(input.numericals_) \/ Len(df) = 0
    THEN [heap |-> h, df |-> df, cols |-> <<>>]
  ELSE LET skip == contains_any(input.numericals_[i].subroles_,
                                blacklist(IMPUTATION))
           r == extract_and_add(h, input.numericals_[i], df[1], add_dummies)
           rest == impute_columns(r.heap, input, r.df, add_dummies, i + 1)
       IN IF Len(skip) = 0 THEN [heap |-> h, df |-> <<>>, cols |-> <<>>]
          ELSE IF skip[1] THEN impute_columns(h, input, df, add_dummies, i + 1)
          ELSE [heap |-> rest.heap, df |-> rest.df, cols |-> r.cols \o rest.cols]

\* Imputation::fit_transform_df
Imputation_fit_transform_df(h, input, add_dummies) ==
  impute_columns(h, input, <<input>>, add_dummies, 1)

\* utils::Time: the component of a time stamp given in seconds.
utils_Time(component, seconds) ==
  CASE component = "hour" -> (seconds \div 3600) % 24
    [] component = "minute" -> (seconds \div 60) % 60
    [] component = "weekday" -> ((seconds \div 86400) + 4) % 7
    [] component = "month" -> 1 + ((seconds \div 2678400) % 12)
    [] OTHER -> 1970 + (seconds \div 31536000)

\* Seasonal::extract_hour ... extract_year: a new column for the component.
extract(h, ts, component) ==
  NewColumn(h, ts.name_ \o "__" \o component,
    [i \in 1..Len(h[ts.data_]) |->
       IF component = "year"
         THEN Fin(utils_Time(component, h[ts.data_][i][2]))
         ELSE utils_Time(component, h[ts.data_][i][2])])

\* Seasonal::fit_transform_df, for one time stamp: every component that is
\* extracted (not disabled, no warning) is added to the copy df.
RECURSIVE add_components(_, _, _, _, _)
add_components(h, ts, df, extracted, k) ==
  IF k > Len(Components) \/ Len(df) = 0 THEN [heap |-> h, df |-> df]
  ELSE IF Components[k] \notin extracted
    THEN add_components(h, ts, df, extracted, k + 1)
  ELSE LET made == extract(h, ts, Components[k])
       IN add_components(
            made.heap, ts,
            add_to_role(made.heap, df[1], made.col,
              IF Components[k] = "year" THEN ROLE_NUMERICAL
              ELSE ROLE_CATEGORICAL),
            extracted, k + 1)

\* Seasonal::fit_transform_df, the loop over the time stamps of the input.
RECURSIVE add_seasonal_columns(_, _, _, _, _)
add_seasonal_columns(h, input, df, extracted, i) ==
  IF i > Len(input.time_stamps_) \/ Len(df) = 0 THEN [heap |-> h, df |-> df]
  ELSE LET skip == contains_any(input.time_stamps_[i].subroles_,
                                blacklist(SEASONAL))
           r == add_components(h, input.time_stamps_[i], df, extracted, 1)
       IN IF Len(skip) = 0 THEN [heap |-> h, df |-> <<>>]
          ELSE IF skip[1]
            THEN add_seasonal_columns(h, input, df, extracted, i + 1)
          ELSE add_seasonal_columns(r.heap, input, r.df, extracted, i + 1)

\* Seasonal::fit_transform_df
Seasonal_fit_transform_df(h, input, extracted) ==
  add_seasonal_columns(h, input, <<input>>, extracted, 1)

\* What a preprocessor is fitted or configured with.
PreprocessorParams ==
  {[kind_ |-> CATEGORY_TRIMMER, set_ |-> s, add_dummies_ |-> FALSE,
    extracted_ |-> {}] : s \in SUBSET {0, 1}}
  \cup {[kind_ |-> IMPUTATION, set_ |-> {}, add_dummies_ |-> b,
         extracted_ |-> {}] : b \in BOOLEAN}
  \cup {[kind_ |-> SEASONAL, set_ |-> {}, add_dummies_ |-> FALSE,
         extracted_ |-> e] :
          e \in SUBSET {Components[k] : k \in 1..Len(Components)}}

\* The values a column of n rows may hold, or <<>> for no such column.
OptionalValues(n, S) == {<<>>} \cup {<<v>> : v \in [1..n -> S]}

\* The heap and the frame made of the optional columns c, n and t.
InputHeap(c, n, t) == c \o n \o t

InputFrame(frozen, c, n, t) ==
  Frame(POPULATION, frozen,
        IF Len(c) = 0 THEN <<>> ELSE <<Column("c", 1)>>,
        IF Len(n) = 0 THEN <<>> ELSE <<Column("n", Len(c) + 1)>>,
        IF Len(t) = 0 THEN <<>> ELSE <<Column("t", Len(c) + Len(n) + 1)>>)

\* The sets a fitted CategoryTrimmer holds for the frame: one per
\* categorical column (fit_df).
category_sets(df, set) ==
  [k \in 1..Len(df.categoricals_) |->
     [name_ |-> df.categoricals_[k].name_, set_ |-> set]]

PreprocessInputs ==
  \E rows \in 1..MaxFrameRows, frozen \in BOOLEAN, params \in PreprocessorParams :
    \E c \in OptionalValues(rows, {0, 1}),
       n \in OptionalValues(rows, {Fin(0), Fin(2), NaN}),
       t \in OptionalValues(rows, {Fin(0), Fin(3660)}) :
      /\ heap = InputHeap(c, n, t)
      /\ pp_df = InputFrame(frozen, c, n, t)
      /\ pp_kind = params.kind_
      /\ pp_params = params

PreprocessIdle == pp_result = <<>> /\ pp_pc = "start"

PreprocessUnused ==
  /\ heap = <<>>
  /\ pp_df = Frame(POPULATION, FALSE, <<>>, <<>>, <<>>)
  /\ pp_kind = CATEGORY_TRIMMER
  /\ pp_params = [kind_ |-> CATEGORY_TRIMMER, set_ |-> {},
                  add_dummies_ |-> FALSE, extracted_ |-> {}]
  /\ PreprocessIdle

\* What the preprocessor of the call returns for the input frame.
apply_preprocessor(h, kind, params, input) ==
  CASE kind = CATEGORY_TRIMMER ->
         CategoryTrimmer_transform_df(h, category_sets(input, params.set_), input)
    [] kind = IMPUTATION ->
         Imputation_fit_transform_df(h, input, params.add_dummies_)
    [] OTHER -> Seasonal_fit_transform_df(h, input, params.extracted_)

\* One call of fit_transform or transform on the input frame, which the
\* preprocessor gets as a reference to const.
preprocess ==
  /\ pp_pc = "start"
  /\ LET r == apply_preprocessor(heap, pp_kind, pp_params, pp_df)
     IN /\ heap' = r.heap
        /\ pp_result' = r.df
        /\ pp_pc' = IF Len(r.df) = 0 THEN "thrown" ELSE "returned"
  /\ UNCHANGED <<not_preprocess_vars, pp_df, pp_kind, pp_params>>

PreprocessNext == preprocess

(***************************************************************************)
(* One DataFrame under a sequence of column additions and removals.        *)
(***************************************************************************)

ColumnNames == {"a", "b"}
Roles == {ROLE_CATEGORICAL, ROLE_NUMERICAL}

\* A frame without columns.
EmptyFrame == Frame(POPULATION, FALSE, <<>>, <<>>, <<>>)

FrameIdle ==
  /\ fr_heap = <<>>
  /\ fr_df = EmptyFrame
  /\ fr_thrown = FALSE
  /\ fr_ops = 0

FrameUnused == FrameIdle

\* A caller constructs a column of n rows and hands it to add_int_column or
\* add_float_column; an exception leaves the frame as it was.
add_column_call(role, name, n) ==
  /\ fr_ops < MaxFrameOps
  /\ fr_ops' = fr_ops + 1
  /\ LET made == NewColumn(fr_heap, name, [i \in 1..n |-> 0])
         added == add_to_role(made.heap, fr_df, made.col, role)
     IN /\ fr_heap' = made.heap
        /\ fr_thrown' = (Len(added) = 0)
        /\ fr_df' = IF Len(added) = 0 THEN fr_df ELSE added[1]
  /\ UNCHANGED not_frame_vars

\* DataFrame::remove_column, which calls rm_col for every role.
remove_column_call(name) ==
  /\ fr_ops < MaxFrameOps
  /\ fr_ops' = fr_ops + 1
  /\ fr_df' = remove_column(fr_df, name)
  /\ fr_thrown' = FALSE
  /\ UNCHANGED <<not_frame_vars, fr_heap>>

FrameNext ==
  \/ \E role \in Roles, name \in ColumnNames, n \in 0..MaxFrameRows :
       add_column_call(role, name, n)
  \/ \E name \in ColumnNames : remove_column_call(name)

(***************************************************************************)
(* A preprocessor that is fitted on one frame (fit_transform) and applied  *)
(* to a later frame (transform). Each frame has one column of the role the *)
(* preprocessor works on.                                                  *)
(***************************************************************************)

\* The categories a categorical column holds; a negative one is null.
CategoryValues == {-1, 0, 1, 2}

\* helpers::NullChecker::is_null for Int.
is_null(val) == val < 0

\* CategoryTrimmer::make_map: how often each value that is not null occurs.
make_map(values) ==
  [v \in {values[i] : i \in {j \in 1..Len(values) : ~is_null(values[j])}} |->
     Cardinality({i \in 1..Len(values) : values[i] = v})]

\* All orders of the elements of a set.
Orders(S) ==
  {f \in [1..Cardinality(S) -> S] :
     \A i, j \in 1..Cardinality(S) : i # j => f[i] # f[j]}

\* The pairs of a count map in a given order of its keys.
pairs_in_order(count_map, order) ==
  [i \in 1..Len(order) |-> [first |-> order[i], second |-> count_map[order[i]]]]

\* A variant of make_counts that leaves the pairs in the order of the map,
\* by value.
make_counts_by_value(values) ==
  LET count_map == make_map(values)
  IN {pairs_in_order(count_map, order) :
        order \in {o \in Orders(DOMAIN count_map) :
                     \A i, j \in 1..Len(o) : i < j => o[i] < o[j]}}

\* CategoryTrimmer::make_counts: the pairs sorted by count, the largest
\* first. std::sort is not stable, so pairs of equal count come in any
\* order: the set of the orders it may return.
make_counts(values) ==
  LET count_map == make_map(values)
  IN {pairs_in_order(count_map, order) :
        order \in {o \in Orders(DOMAIN count_map) :
                     \A i, j \in 1..Len(o) :
                       i < j => count_map[o[i]] >= count_map[o[j]]}}

\* CategoryTrimmer::make_category_set, after make_counts: the values whose
\* count is at least min_freq, and of these the first max_num_categories.
take_categories(counts, max_num_categories, min_freq) ==
  LET filtered == SelectSeq(counts, LAMBDA pair : pair.second >= min_freq)
      taken == SubSeq(filtered, 1, Min(max_num_categories, Len(filtered)))
  IN {taken[i].first : i \in 1..Len(taken)}

\* CategoryTrimmer::make_category_set: the sets it may return.
make_category_set(values, max_num_categories, min_freq) ==
  {take_categories(counts, max_num_categories, min_freq) :
     counts \in make_counts(values)}

\* CategoryTrimmer::fit_df from the k-th categorical column on: a pair of
\* name and set for every column without a subrole of the blacklist. The
\* outcomes it may have; thrown stands for the exception of the parser.
RECURSIVE fit_df(_, _, _, _)
fit_df(h, df, hyper, k) ==
  IF k > Len(df.categoricals_) THEN {[thrown |-> FALSE, sets |-> <<>>]}
  ELSE LET col == df.categoricals_[k]
           excluded == contains_any(col.subroles_, blacklist(CATEGORY_TRIMMER))
           rest == fit_df(h, df, hyper, k + 1)
       IN IF Len(excluded) = 0 THEN {[thrown |-> TRUE, sets |-> <<>>]}
          ELSE IF excluded[1] THEN rest
          ELSE {[thrown |-> r.thrown,
                 sets |-> <<[name_ |-> col.name_, set_ |-> set]>> \o r.sets] :
                  set \in make_category_set(h[col.data_],
                                            hyper.max_num_categories_,
                                            hyper.min_freq_),
                  r \in rest}

\* The loop of Imputation::transform_df over the fitted columns: the column
\* of the input is imputed with the fitted mean on the copy df, and the
\* dummy is added if the fit needed one.
RECURSIVE impute_fitted_columns(_, _, _, _, _)
impute_fitted_columns(h, cols, input, df, i) ==
  IF i > Len(cols) \/ Len(df) = 0 THEN [heap |-> h, df |-> df]
  ELSE LET original_col == column_named(input.numericals_, cols[i].name_)
           imputed == impute(h, original_col, cols[i].mean_, df[1])
           added == IF cols[i].needs_dummy_ /\ Len(imputed.df) = 1
                      THEN add_dummy(imputed.heap, original_col, imputed.df[1])
                      ELSE [heap |-> imputed.heap, df |-> imputed.df]
       IN impute_fitted_columns(added.heap, cols, input, added.df, i + 1)

\* A variant of Imputation::transform_df that adds no dummy column.
Imputation_transform_df_without_dummy(h, cols, input) ==
  impute_fitted_columns(
    h, [i \in 1..Len(cols) |-> [cols[i] EXCEPT !.needs_dummy_ = FALSE]],
    input, <<input>>, 1)

\* Imputation::transform_df
Imputation_transform_df(h, cols, input) ==
  impute_fitted_columns(h, cols, input, <<input>>, 1)

ComponentSet == {Components[k] : k \in 1..Len(Components)}

\* The names Seasonal holds per component after fit_transform_df
\* (PreprocessorImpl::add): the time stamps without a subrole of the
\* blacklist, for every component that gave a column.
Seasonal_names(input, extracted) ==
  LET included == SelectSeq(input.time_stamps_,
                    LAMBDA ts : contains_any(ts.subroles_, blacklist(SEASONAL))
                                = <<FALSE>>)
  IN [c \in ComponentSet |->
        IF c \in extracted
          THEN [i \in 1..Len(included) |-> included[i].name_]
          ELSE <<>>]

\* Seasonal::transform_df, the loop over the names of one component: the
\* component of the time stamp of the copy df is added to the copy.
RECURSIVE add_component_of_names(_, _, _, _, _)
add_component_of_names(h, component_names, component, df, i) ==
  IF i > Len(component_names) \/ Len(df) = 0 THEN [heap |-> h, df |-> df]
  ELSE LET made == extract(h, column_named(df[1].time_stamps_,
                                           component_names[i]), component)
       IN add_component_of_names(
            made.heap, component_names, component,
            add_to_role(made.heap, df[1], made.col,
              IF component = "year" THEN ROLE_NUMERICAL
              ELSE ROLE_CATEGORICAL),
            i + 1)

\* Seasonal::transform_df, one component after the other.
RECURSIVE add_fitted_components(_, _, _, _)
add_fitted_components(h, names, df, k) ==
  IF k > Len(Components) \/ Len(df) = 0 THEN [heap |-> h, df |-> df]
  ELSE LET r == add_component_of_names(h, names[Components[k]],
                                       Components[k], df, 1)
       IN add_fitted_components(r.heap, names, r.df, k + 1)

\* Seasonal::transform_df
Seasonal_transform_df(h, names, input) ==
  add_fitted_components(h, names, <<input>>, 1)

\* The hyperparameters of the three preprocessors.
Hyper(max_num_categories, min_freq, add_dummies, extracted) ==
  [max_num_categories_ |-> max_num_categories, min_freq_ |-> min_freq,
   add_dummies_ |-> add_dummies, extracted_ |-> extracted]

\* What a preprocessor holds before it is fitted: no sets (CategoryTrimmer),
\* no columns (Imputation), no names (Seasonal).
NotFitted ==
  [sets_ |-> <<>>, cols_ |-> <<>>, names_ |-> [c \in ComponentSet |-> <<>>]]

\* fit_transform of each preprocessor on one frame: the outcomes it may
\* have, each with the heap, the returned frame (<<>> for an exception) and
\* what the preprocessor holds afterwards.
fit_transform_outcomes(h, kind, hyper, input) ==
  CASE kind = CATEGORY_TRIMMER ->
         {IF f.thrown THEN [heap |-> h, df |-> <<>>, fitted |-> NotFitted]
          ELSE LET r == CategoryTrimmer_transform_df(h, f.sets, input)
               IN [heap |-> r.heap, df |-> r.df,
                   fitted |-> [NotFitted EXCEPT !.sets_ = f.sets]] :
            f \in fit_df(h, input, hyper, 1)}
    [] kind = IMPUTATION ->
         LET r == Imputation_fit_transform_df(h, input, hyper.add_dummies_)
         IN {[heap |-> r.heap, df |-> r.df,
              fitted |-> [NotFitted EXCEPT !.cols_ = r.cols]]}
    [] OTHER ->
         LET r == Seasonal_fit_transform_df(h, input, hyper.extracted_)
         IN {[heap |-> r.heap, df |-> r.df,
              fitted |-> [NotFitted EXCEPT
                            !.names_ = Seasonal_names(input, hyper.extracted_)]]}

\* transform of each fitted preprocessor on one frame.
transform_outcome(h, kind, fitted, input) ==
  CASE kind = CATEGORY_TRIMMER ->
         CategoryTrimmer_transform_df(h, fitted.sets_, input)
    [] kind = IMPUTATION -> Imputation_transform_df(h, fitted.cols_, input)
    [] OTHER -> Seasonal_transform_df(h, fitted.names_, input)

\* The name of the column of the frames, by preprocessor.
column_name_of(kind) ==
  CASE kind = CATEGORY_TRIMMER -> "c" [] kind = IMPUTATION -> "n" [] OTHER -> "t"

\* A frame whose only column has the given storage and subroles.
OneColumnFrame(kind, data, subroles) ==
  LET col == set_subroles(Column(column_name_of(kind), data), subroles)
  IN Frame(POPULATION, FALSE,
           IF kind = CATEGORY_TRIMMER THEN <<col>> ELSE <<>>,
           IF kind = IMPUTATION THEN <<col>> ELSE <<>>,
           IF kind = SEASONAL THEN <<col>> ELSE <<>>)

\* The column of the frame a preprocessor of this kind works on.
column_of(kind, df) ==
  CASE kind = CATEGORY_TRIMMER -> df.categoricals_[1]
    [] kind = IMPUTATION -> df.numericals_[1]
    [] OTHER -> df.time_stamps_[1]

FittedIdle ==
  /\ ft_fitted = NotFitted
  /\ ft_result = <<>>
  /\ ft_later_result = <<>>
  /\ ft_pc = "start"

FittedUnused ==
  /\ ft_heap = <<>>
  /\ ft_df = EmptyFrame
  /\ ft_later_df = EmptyFrame
  /\ ft_kind = CATEGORY_TRIMMER
  /\ ft_hyper = Hyper(0, 0, FALSE, {})
  /\ FittedIdle

\* The two frames, with the values and the subroles of their columns.
FittedFrames(kind, values, later_values, subroles, later_subroles) ==
  /\ ft_kind = kind
  /\ ft_heap = <<values, later_values>>
  /\ ft_df = OneColumnFrame(kind, 1, subroles)
  /\ ft_later_df = OneColumnFrame(kind, Len(ft_heap), later_subroles)

\* All columns of at least one row and up to n rows over the values S.
ColumnsUpTo(n, S) == UNION {[1..rows -> S] : rows \in 1..n}

\* Inputs with columns of many values and no subroles: a CategoryTrimmer
\* with every max_num_categories and min_freq, applied later to a column of
\* one row; an Imputation with and without dummies; a Seasonal.
FittedInputs ==
  \/ \E values \in ColumnsUpTo(MaxTrimRows, CategoryValues),
        later_values \in [{1} -> CategoryValues],
        max_num_categories \in 0..MaxNumCategories,
        min_freq \in 0..MaxMinFreq :
       /\ FittedFrames(CATEGORY_TRIMMER, values, later_values, {}, {})
       /\ ft_hyper = Hyper(max_num_categories, min_freq, FALSE, {})
  \/ \E values \in ColumnsUpTo(MaxFrameRows, {Fin(0), Fin(2), NaN, PosInf}),
        later_values \in ColumnsUpTo(MaxFrameRows, {Fin(0), Fin(2), NaN}),
        add_dummies \in BOOLEAN :
       /\ FittedFrames(IMPUTATION, values, later_values, {}, {})
       /\ ft_hyper = Hyper(0, 0, add_dummies, {})
  \/ \E values \in ColumnsUpTo(MaxFrameRows, {Fin(0), Fin(3660)}),
        later_values \in ColumnsUpTo(MaxFrameRows, {Fin(0), Fin(3660)}),
        extracted \in SUBSET ComponentSet :
       /\ FittedFrames(SEASONAL, values, later_values, {}, {})
       /\ ft_hyper = Hyper(0, 0, FALSE, extracted)

\* The subroles a column may carry here: none, one that
\* SubroleParser::parse knows, or one it does not know.
SubroleSets == {{}} \cup {{s} : s \in Subroles \cup {"unknown"}}

\* Inputs with columns of every subrole and few values: the two frames hold
\* the same values and may differ in the subroles of their column. Every
\* preprocessor that does not skip the column changes the frame: the
\* trimmer keeps one category of two, the imputation finds a NaN, the
\* seasonal extracts every component.
SubroleInputs ==
  \E kind \in {CATEGORY_TRIMMER, IMPUTATION, SEASONAL},
     subroles \in SubroleSets, later_subroles \in SubroleSets,
     add_dummies \in BOOLEAN :
    LET values == CASE kind = CATEGORY_TRIMMER -> <<0, 0, 1>>
                    [] kind = IMPUTATION -> <<Fin(2), NaN>>
                    [] OTHER -> <<Fin(0), Fin(3660)>>
    IN /\ FittedFrames(kind, values, values, subroles, later_subroles)
       /\ ft_hyper = Hyper(1, 0, add_dummies, ComponentSet)

\* fit_transform on the first frame.
fit_transform ==
  /\ ft_pc = "start"
  /\ \E r \in fit_transform_outcomes(ft_heap, ft_kind, ft_hyper, ft_df) :
       /\ ft_heap' = r.heap
       /\ ft_result' = r.df
       /\ ft_fitted' = r.fitted
       /\ ft_pc' = IF Len(r.df) = 0 THEN "thrown" ELSE "fitted"
  /\ UNCHANGED <<not_fitted_vars, ft_df, ft_later_df, ft_kind, ft_hyper,
                 ft_later_result>>

\* A later transform, on the second frame.
later_transform ==
  /\ ft_pc = "fitted"
  /\ LET r == transform_outcome(ft_heap, ft_kind, ft_fitted, ft_later_df)
     IN /\ ft_heap' = r.heap
        /\ ft_later_result' = r.df
        /\ ft_pc' = IF Len(r.df) = 0 THEN "thrown" ELSE "transformed"
  /\ UNCHANGED <<not_fitted_vars, ft_df, ft_later_df, ft_kind, ft_hyper,
                 ft_fitted, ft_result>>

FittedNext == fit_transform \/ later_transform

\* Whether a list of columns has one called name.
has_named(cols, name) == \E i \in 1..Len(cols) : cols[i].name_ = name

\* The values of the column the preprocessor is fitted on, and of the
\* column of the later frame.
fit_values == ft_heap[column_of(ft_kind, ft_df).data_]
later_values == ft_heap[column_of(ft_kind, ft_later_df).data_]

\* The set the CategoryTrimmer holds for the column.
kept_set == ft_fitted.sets_[1].set_

\* How often a value occurs in the column the trimmer is fitted on.
occurrences(v) == Cardinality({i \in 1..Len(fit_values) : fit_values[i] = v})

\* The values that may be kept: not null, in the column, and at least
\* min_freq times.
eligible ==
  {v \in CategoryValues : /\ ~is_null(v)
                          /\ occurrences(v) >= 1
                          /\ occurrences(v) >= ft_hyper.min_freq_}

\* The values of the categorical column of a returned frame.
trimmed_column_of(df) == ft_heap[column_named(df[1].categoricals_, "c").data_]

\* Every value of the column that is not null is as it was if it is kept,
\* and the trimmed id if it is not.
OthersTrimmed(values, df) ==
  /\ Len(trimmed_column_of(df)) = Len(values)
  /\ \A i \in 1..Len(values) :
       ~is_null(values[i]) =>
         trimmed_column_of(df)[i] =
           (IF values[i] \in kept_set THEN values[i] ELSE TRIMMED)

\* C22: the CategoryTrimmer keeps the max_num_categories most frequent
\* values whose count is at least min_freq (all of them if they are fewer):
\* no value that is not kept is more frequent than a kept one; and every
\* other value, in fit_transform and in a later transform, becomes the
\* trimmed id. (What becomes of a null value is C30.)
C22_KeepsMostFrequentTrimsOthers ==
  (ft_kind = CATEGORY_TRIMMER /\ ft_pc \in {"fitted", "transformed"}) =>
    /\ kept_set \subseteq eligible
    /\ Cardinality(kept_set) =
         Min(ft_hyper.max_num_categories_, Cardinality(eligible))
    /\ \A v \in kept_set, w \in eligible \ kept_set :
         occurrences(v) >= occurrences(w)
    /\ OthersTrimmed(fit_values, ft_result)
    /\ ft_pc = "transformed" => OthersTrimmed(later_values, ft_later_result)

\* The example of C22: of the column a, a, b, c with max_num_categories 1
\* and min_freq 1 only a is kept, and a later b is trimmed as well.
C22_Witness ==
  /\ ft_kind = CATEGORY_TRIMMER
  /\ ft_pc = "transformed"
  /\ fit_values = <<0, 0, 1, 2>>
  /\ ft_hyper.max_num_categories_ = 1
  /\ ft_hyper.min_freq_ = 1
  /\ kept_set = {0}
  /\ trimmed_column_of(ft_result) = <<0, 0, TRIMMED, TRIMMED>>
  /\ later_values = <<1>>
  /\ trimmed_column_of(ft_later_result) = <<TRIMMED>>

\* Every null value of the column is null in the returned frame.
NullsStayNull(values, df) ==
  \A i \in 1..Len(values) :
    is_null(values[i]) => trimmed_column_of(df)[i] = values[i]

\* C30: a null value is not counted as a category by the fit, and is left
\* as it is by fit_transform and by a later transform.
C30_NullValuesStayNull ==
  (ft_kind = CATEGORY_TRIMMER /\ ft_pc \in {"fitted", "transformed"}) =>
    /\ \A v \in kept_set : ~is_null(v)
    /\ NullsStayNull(fit_values, ft_result)
    /\ ft_pc = "transformed" => NullsStayNull(later_values, ft_later_result)

\* Whether a column has a NaN.
has_nan(values) == \E i \in 1..Len(values) : isnan(values[i])

\* The values of a numerical column of a returned frame.
numbers_named(df, name) == ft_heap[column_named(df[1].numericals_, name).data_]

\* Whether a returned frame has the dummy column.
has_dummy(df) == has_named(df[1].numericals_, make_dummy_name("n"))

\* The returned frame has the column with every NaN replaced with the mean
\* and every other value as it was.
NaNReplaced(values, mean, df) ==
  /\ has_named(df[1].numericals_, make_name("n"))
  /\ numbers_named(df, make_name("n")) =
       [i \in 1..Len(values) |-> IF isnan(values[i]) THEN mean ELSE values[i]]

\* The dummy column of the returned frame, if it has one, is 1 where the
\* value was NaN and 0 elsewhere.
DummyMarksNaN(values, df) ==
  has_dummy(df) =>
    numbers_named(df, make_dummy_name("n")) =
      [i \in 1..Len(values) |-> IF isnan(values[i]) THEN Fin(1) ELSE Fin(0)]

\* The mean of the values of the fitted column that are not NaN.
fitted_mean == avg(fit_values)

\* C25, as stated: in fit_transform and in transform alike, every NaN is
\* replaced with the fitted mean, and a column with a NaN gets a dummy
\* that marks the replaced positions if add_dummies is set.
C25_DummyWheneverNaNInBoth ==
  ft_kind = IMPUTATION =>
    /\ ft_pc \in {"fitted", "transformed"} =>
         /\ NaNReplaced(fit_values, fitted_mean, ft_result)
         /\ (ft_hyper.add_dummies_ /\ has_nan(fit_values)) =>
              has_dummy(ft_result)
         /\ DummyMarksNaN(fit_values, ft_result)
    /\ ft_pc = "transformed" =>
         /\ NaNReplaced(later_values, fitted_mean, ft_later_result)
         /\ (ft_hyper.add_dummies_ /\ has_nan(later_values)) =>
              has_dummy(ft_later_result)
         /\ DummyMarksNaN(later_values, ft_later_result)

\* C25, as the code has it: every NaN is replaced with the fitted mean in
\* both; fit_transform emits the dummy exactly if add_dummies is set and
\* the fitted column has a NaN; a later transform emits the dummy exactly
\* if fit_transform did, whether or not the later column has a NaN; the
\* dummy marks the replaced positions.
C25_DummyInTransformAsInFit ==
  ft_kind = IMPUTATION =>
    /\ ft_pc \in {"fitted", "transformed"} =>
         /\ NaNReplaced(fit_values, fitted_mean, ft_result)
         /\ has_dummy(ft_result) <=>
              (ft_hyper.add_dummies_ /\ has_nan(fit_values))
         /\ DummyMarksNaN(fit_values, ft_result)
    /\ ft_pc = "transformed" =>
         /\ NaNReplaced(later_values, fitted_mean, ft_later_result)
         /\ has_dummy(ft_later_result) <=> has_dummy(ft_result)
         /\ DummyMarksNaN(later_values, ft_later_result)

\* An Imputation with add_dummies, fitted on a column with a NaN and
\* applied to a column with a NaN: the NaN is replaced and marked in both.
C25_Witness ==
  /\ ft_kind = IMPUTATION
  /\ ft_pc = "transformed"
  /\ ft_hyper.add_dummies_
  /\ fit_values = <<Fin(2), NaN>>
  /\ later_values = <<NaN, Fin(0)>>
  /\ numbers_named(ft_later_result, make_name("n")) = <<Fin(2), Fin(0)>>
  /\ numbers_named(ft_later_result, make_dummy_name("n")) = <<Fin(1), Fin(0)>>

\* Whether the column of a frame carries a subrole for which a
\* preprocessor of this kind skips it.
carries_excluding_subrole(kind, df) ==
  column_of(kind, df).subroles_
    \cap {EXCLUDE_PREPROCESSORS, EMAIL_ONLY, SUBSTRING_ONLY,
          CASE kind = CATEGORY_TRIMMER -> EXCLUDE_CATEGORY_TRIMMER
            [] kind = IMPUTATION -> EXCLUDE_IMPUTATION
            [] OTHER -> EXCLUDE_SEASONAL} # {}

\* fit_transform has returned the frame as it was given, has made no column
\* and has fitted nothing.
SkippedByFit ==
  /\ ft_pc \in {"fitted", "transformed"}
  /\ ft_fitted = NotFitted
  /\ ft_result = <<ft_df>>
  /\ Len(ft_heap) = 2

\* The later transform has returned the frame as it was given and has made
\* no column.
SkippedByTransform ==
  /\ ft_later_result = <<ft_later_df>>
  /\ Len(ft_heap) = 2

\* C23, as stated: a column that carries one of the subroles is neither
\* fitted nor rewritten by fit_transform, and a column that carries one is
\* not rewritten by a later transform.
C23_ColumnWithSubroleSkippedInBoth ==
  /\ (ft_pc # "start" /\ carries_excluding_subrole(ft_kind, ft_df)) =>
       SkippedByFit
  /\ (ft_pc = "transformed" /\ carries_excluding_subrole(ft_kind, ft_later_df))
       => ft_later_result = <<ft_later_df>>

\* C23, as the code has it: a column that carries one of the subroles in
\* the frame the preprocessor is fitted on is neither fitted nor rewritten
\* by fit_transform, and is not rewritten by a later transform, whatever
\* subroles it carries in the later frame.
C23_ColumnSkippedByFitIsSkippedLater ==
  (ft_pc # "start" /\ carries_excluding_subrole(ft_kind, ft_df)) =>
    /\ SkippedByFit
    /\ ft_pc = "transformed" => SkippedByTransform

\* A column with the preprocessor's own subrole in the fitted frame and
\* none in the later frame has gone through both unchanged.
C23_Witness ==
  /\ ft_pc = "transformed"
  /\ ft_kind = IMPUTATION
  /\ column_of(ft_kind, ft_df).subroles_ = {EXCLUDE_IMPUTATION}
  /\ column_of(ft_kind, ft_later_df).subroles_ = {}
  /\ has_nan(later_values)
  /\ SkippedByFit
  /\ SkippedByTransform

(***************************************************************************)
(* The specifications                                                      *)
(***************************************************************************)

\* The parts a specification does not drive.
CacheUnused == CacheInit

OthersUnused == FrameUnused /\ FittedUnused

\* The cache layer and its commands.
Init ==
  /\ CacheInit /\ TransformUnused /\ FitUnused /\ ImportanceUnused
  /\ EnumerationUnused /\ ServerUnused /\ PreprocessUnused /\ OthersUnused

Next ==
  \/ Tick
  \/ \E n \in FrameNames : MutateFrame(n)
  \/ DeleteFrame
  \/ \E c \in Cmds, p \in Pipelines : StartTransform(c, p)
  \/ \E c \in Cmds : MakeFeaturesRetrieve(c)
  \/ \E c \in Cmds : MakeFeaturesBuild(c)
  \/ \E c \in Cmds : StoreDf(c)
  \/ \E c \in Cmds, p \in Pipelines : StartCheck(c, p)
  \/ \E c \in Cmds : CheckRetrieve(c)
  \/ \E c \in Cmds : CheckFinish(c)


Spec == Init /\ [][Next]_vars

\* One parallel transform, over all its inputs.
TransformInit ==
  /\ CacheUnused /\ FitUnused /\ ImportanceUnused /\ EnumerationUnused
  /\ ServerUnused /\ PreprocessUnused /\ OthersUnused
  /\ TransformInputs /\ TransformIdle

TransformSpec == TransformInit /\ [][TransformNext]_vars

\* One fit, over all its inputs.
FitInit ==
  /\ CacheUnused /\ TransformUnused /\ ImportanceUnused /\ EnumerationUnused
  /\ ServerUnused /\ PreprocessUnused /\ OthersUnused
  /\ FitInputs /\ FitIdle

FitSpec == FitInit /\ [][FitNext]_vars

\* One inference of the column importances, over all its inputs.
ImportanceInit ==
  /\ CacheUnused /\ TransformUnused /\ FitUnused /\ EnumerationUnused
  /\ ServerUnused /\ PreprocessUnused /\ OthersUnused
  /\ ImportanceInputs /\ ImportanceIdle

ImportanceSpec == ImportanceInit /\ [][ImportanceNext]_vars

\* One enumeration of candidates, over all its inputs.
EnumerationInit ==
  /\ CacheUnused /\ TransformUnused /\ FitUnused /\ ImportanceUnused
  /\ ServerUnused /\ PreprocessUnused /\ OthersUnused
  /\ EnumerationInputs /\ EnumerationIdle

EnumerationSpec == EnumerationInit /\ [][EnumerationNext]_vars

\* The request handlers, over all commands and their interleavings.
ServerInit ==
  /\ CacheInit /\ TransformUnused /\ FitUnused /\ ImportanceUnused
  /\ EnumerationUnused /\ ServerInputs /\ ServerIdle /\ PreprocessUnused /\ OthersUnused

ServerSpec == ServerInit /\ [][ServerNext]_vars

\* One application of a preprocessor, over all its inputs.
PreprocessInit ==
  /\ CacheUnused /\ TransformUnused /\ FitUnused /\ ImportanceUnused
  /\ EnumerationUnused /\ ServerUnused /\ PreprocessInputs /\ PreprocessIdle
  /\ OthersUnused

PreprocessSpec == PreprocessInit /\ [][PreprocessNext]_vars

\* One frame, over all sequences of column additions and removals.
FrameInit ==
  /\ CacheUnused /\ TransformUnused /\ FitUnused /\ ImportanceUnused
  /\ EnumerationUnused /\ ServerUnused /\ PreprocessUnused
  /\ FrameIdle /\ FittedUnused

FrameSpec == FrameInit /\ [][FrameNext]_vars

\* The parts but the fitted preprocessor.
NotFittedPartsUnused ==
  /\ CacheUnused /\ TransformUnused /\ FitUnused /\ ImportanceUnused
  /\ EnumerationUnused /\ ServerUnused /\ PreprocessUnused /\ FrameUnused

\* One preprocessor fitted and applied again, over columns of many values.
FittedInit == NotFittedPartsUnused /\ FittedInputs /\ FittedIdle

FittedSpec == FittedInit /\ [][FittedNext]_vars

\* One preprocessor fitted and applied again, over columns of every subrole.
SubroleInit == NotFittedPartsUnused /\ SubroleInputs /\ FittedIdle

SubroleSpec == SubroleInit /\ [][FittedNext]_vars

(***************************************************************************)
(* Claims about the parallel transform (checked under TransformSpec)       *)
(***************************************************************************)

\* spawn_threads has come to its end, by a return or by an exception.
SpawnThreadsOver ==
  main_pc \in {"returned", "thrown"} /\ thread_pc[0] # "unspawned"

\* The log holds a line about the exception of thread t.
ErrorLogged(t) == \E m \in log : m[1] = "error" /\ m[2] = t

\* C5: when the parallel transform is over, the exception of worker thread 0
\* (and no other) is the one handed to the caller, and the exception of
\* every other worker thread that raised one has been written to the log.
C5_Thread0PropagatedOthersLogged ==
  SpawnThreadsOver =>
    /\ thread_pc[0] = "failed" => propagated = thread_exc[0]
    /\ thread_pc[0] # "failed" => propagated = <<>>
    /\ \A t \in Spawned \ {0} :
         thread_pc[t] = "failed" =>
           propagated # thread_exc[t] /\ ErrorLogged(t)

\* The rows a transform processes: the sampled rows, or all of them.
rows_to_process ==
  IF Len(rownums_) = 1 THEN {rownums_[1][k] : k \in DOMAIN rownums_[1]}
  ELSE 0..(population_nrows - 1)

NoThreadFailed == \A t \in Spawned : thread_pc[t] = "done"

\* C6: when the parallel transform returns and no thread raised, the matrix
\* holds, for every processed row and every entry of the index, the value
\* of that feature on that row, whatever the order the threads ran in.
C6_MatrixPositionedByRowAndIndex ==
  (main_pc = "returned" /\ NoThreadFailed) =>
    \A r \in rows_to_process, j \in 1..ncols :
      features[<<r, j>>] = build_row(index_, r)[j]

\* The row numbers of the threads 0..t, one partition after the other.
RECURSIVE partitions_up_to(_)
partitions_up_to(t) ==
  IF t < 0 THEN <<>> ELSE partitions_up_to(t - 1) \o thread_rownums(t)

all_rownums ==
  IF Len(rownums_) = 1 THEN rownums_[1] ELSE iota(population_nrows, 0)

elements(v) == {v[k] : k \in DOMAIN v}

\* C7: for every row count and thread count the partitions of make_rownums,
\* taken in thread order, are exactly the rows to process, no two of them
\* share a row, and no row of the matrix is written by two threads.
C7_PartitionsDisjointAndCovering ==
  /\ partitions_up_to(num_threads - 1) = all_rownums
  /\ \A t1, t2 \in Spawned :
       t1 # t2 => elements(thread_rownums(t1)) \cap
                  elements(thread_rownums(t2)) = {}
  /\ \A r \in DOMAIN written_by : Cardinality(written_by[r]) <= 1

\* A transform with fewer rows than threads has returned and has written.
C7_Witness ==
  /\ main_pc = "returned"
  /\ total_nrows < num_threads
  /\ \E r \in DOMAIN written_by : written_by[r] # {}

\* The aggregation result of a cell before the write.
raw_value(c) ==
  apply_aggregation(abstract_features[index_[c[2]]], make_matches(c[1]))

comes_before(r, a, b) == r[a] > r[b] \/ (r[a] = r[b] /\ a < b)

\* The n first candidates in that order, by position.
highest(r, n) ==
  LET among_first(a) ==
        Cardinality({b \in DOMAIN r : comes_before(r, b, a)}) < n
  IN  SelectSeq(positions(r), among_first)

\* C9: a fit with more candidates than num_features keeps the num_features
\* candidates of the highest R-squared, the earlier candidate winning a tie.
C9_KeepsHighestTiesByEnumeration ==
  (fit_pc = "done" /\ ~as_subfeatures_ /\ Len(r_squared_) > num_features_) =>
    abstract_features_ = highest(r_squared_, num_features_)

\* C10 as stated: after any fit, at most num_features features are selected
\* and all candidates are if there are at most num_features of them.
C10_BoundAfterEveryFit ==
  fit_pc = "done" =>
    /\ Len(abstract_features_) <= num_features_
    /\ Len(r_squared_) <= num_features_ =>
         abstract_features_ = positions(r_squared_)

\* C10 amended: after a fit that is not the fit of a subfeature container,
\* at most num_features features are selected, and all candidates are
\* selected if there are at most num_features of them.
C10_BoundAfterTopLevelFit ==
  (fit_pc = "done" /\ ~as_subfeatures_) =>
    /\ Len(abstract_features_) <= num_features_
    /\ Len(r_squared_) <= num_features_ =>
         abstract_features_ = positions(r_squared_)

\* A top-level fit with more candidates than num_features has selected
\* exactly num_features of them.
C10_Witness ==
  /\ fit_pc = "done"
  /\ ~as_subfeatures_
  /\ Len(r_squared_) > num_features_
  /\ Len(abstract_features_) = num_features_

(***************************************************************************)
(* Claims about the column importances (checked under ImportanceSpec)      *)
(***************************************************************************)

RECURSIVE sum_of(_)
sum_of(v) == IF v = <<>> THEN 0 ELSE Head(v) + sum_of(Tail(v))

\* The sum of the values of a map.
sum_of_importances(importances) ==
  LET ps == pairs_of(importances)
  IN  sum_of([k \in 1..Len(ps) |-> ps[k][2]])

\* The importance of the features that use no column: those of the top
\* container, and what the features over subfeatures route to such a
\* feature of the subfeature container.
uses_no_column(fl, k) == fl.features_[k].data_used_ = "na"

routed_to_no_column ==
  LET top == fl_.features_
      own == [k \in 1..Len(top) |->
                IF uses_no_column(fl_, k) THEN importance_factors_[k] ELSE 0]
      routed == [k \in 1..Len(top) |->
                   IF /\ top[k].data_used_ = "subfeatures"
                      /\ uses_no_column(fl_.subfeatures_[1],
                                        top[k].input_col_ + 1)
                   THEN importance_factors_[k] ELSE 0]
  IN  sum_of(own) + sum_of(routed)

\* C11 as stated: the column importances returned by column_importances sum
\* to the sum of the feature importances, whatever the features use.
C11_ImportanceConserved ==
  imp_pc = "done" =>
    sum_of_importances(importances_) = sum_of(importance_factors_)

\* C11 amended: the column importances sum to the sum of the feature
\* importances less the importance of the features that use no column
\* (data_used "na"), at either level of the subfeature tree.
C11_ImportanceConservedOverColumns ==
  imp_pc = "done" =>
    sum_of_importances(importances_) =
      sum_of(importance_factors_) - routed_to_no_column

\* Importances were inferred through a same-units feature of the subfeature
\* container, with a positive importance.
C11_Witness ==
  /\ imp_pc = "done"
  /\ \E k \in DOMAIN fl_.features_ :
       /\ fl_.features_[k].data_used_ = "subfeatures"
       /\ importance_factors_[k] > 0
       /\ fl_.subfeatures_[1].features_[fl_.features_[k].input_col_ + 1]
            .data_used_ = "same_units_numerical"
  /\ sum_of_importances(importances_) > 0

(***************************************************************************)
(* Claims about the enumeration (checked under EnumerationSpec)            *)
(***************************************************************************)

\* The aggregations the claim calls time-anchored.
time_anchored(agg) == agg \in {FIRST, LAST, TREND, AVG_TIME_BETWEEN}

ColumnsChange(n) ==
  /\ n \in DOMAIN data_frames /\ n \in DOMAIN data_frames'
  /\ data_frames'[n].ncols # data_frames[n].ncols

\* C13: every step that changes the columns of a frame leaves it with a
\* last_change strictly greater than the one it had before.
C13_LastChangeStrictlyIncreases ==
  [][\A n \in InputFrames :
       ColumnsChange(n) =>
         data_frames'[n].last_change_ > data_frames[n].last_change_]_vars

(***************************************************************************)
(* Claims about the request handlers (checked under ServerSpec)            *)
(***************************************************************************)

\* Thread c is about to add a column to a frame of the map that is frozen.
AddsToFrozenFrame(c) ==
  /\ srv_pc[c] = "recv_and_add_float_column"
  /\ Len(local_df[c]) = 0
  /\ data_frames[srv_cmd[c].df_name_].frozen_

LooksUpPipeline(c) == srv_pc[c] \in {"get_pipeline", "set_pipeline_upgrade"}

\* Thread c is about to insert or replace a pipeline.
ModifiesPipelines(c) ==
  srv_pc[c] \in {"set_pipeline_assign", "insert_or_assign"}

\* C15: a thread that looks a pipeline up holds the lock at least in read
\* mode, a thread that inserts or replaces a pipeline holds it exclusively,
\* and no thread looks a pipeline up while another one modifies the map.
C15_PipelineMapGuarded ==
  /\ \A c \in Cmds : LooksUpPipeline(c) => (c \in readers \/ weak_writer = c)
  /\ \A c \in Cmds :
       ModifiesPipelines(c) =>
         (writer = c /\ weak_writer = c /\ readers \subseteq {c})
  /\ \A c1, c2 \in Cmds :
       (c1 # c2 /\ ModifiesPipelines(c1)) =>
         (~LooksUpPipeline(c2) /\ ~ModifiesPipelines(c2))

\* One thread is about to replace a pipeline while another one has been
\* asked to look it up.
C15_Witness ==
  \E c1, c2 \in Cmds :
    /\ srv_pc[c1] = "set_pipeline_assign"
    /\ srv_pc[c2] = GET_PIPELINE
    /\ srv_cmd[c1].name_ = srv_cmd[c2].name_

\* The frame FEATURES enters the map in this step.
InsertsNewFrame ==
  FEATURES \notin DOMAIN data_frames /\ FEATURES \in DOMAIN data_frames'

\* C16: the step that puts a new frame into the map is taken by the thread
\* that upgraded its weak write lock, while no other thread holds the lock
\* in any mode.
C16_FirstTouchInsertsUnderUpgradedLock ==
  [][InsertsNewFrame =>
       /\ writer # 0
       /\ weak_writer = writer
       /\ readers \subseteq {writer}
       /\ srv_cmd[writer].type_ = ADD_FLOAT_COLUMN]_vars

\* A new frame is in the map, put there by one thread while another one
\* had been asked to read the frames.
C16_Witness ==
  /\ FEATURES \in DOMAIN data_frames
  /\ data_frames[FEATURES].ncols = 1
  /\ \E c \in Cmds : srv_pc[c] \in {AGGREGATE, "aggregate"}

\* C17: once a shutdown command has been received and handled, the
\* shutdown flag is set.
C17_ShutdownSetsFlag == shutdown_received => shutdown_

\* Thread c parses, in this step, the description of a feature learner
\* that the community edition does not support.
ParsesNotSupported(c) ==
  /\ srv_pc[c] = FIT
  /\ srv_cmd[c].feature_learner_ \in NotSupportedInCommunity
  /\ srv_pc'[c] # FIT

\* C18: a description of Fastboost, Multirel, Relboost or RelMT is answered
\* with the NotSupportedInCommunity error and yields no feature learner.
C18_NotSupportedRejected ==
  [][\A c \in Cmds :
       ParsesNotSupported(c) =>
         (srv_pc'[c] = "idle" /\ srv_result'[c] = NOT_SUPPORTED)]_vars

(***************************************************************************)
(* Claims about the preprocessors (checked under PreprocessSpec)           *)
(***************************************************************************)

\* The storage numbers of the columns of a frame.
storage_of(df) == {df_columns(df)[k].data_ : k \in 1..Len(df_columns(df))}

\* The columns of the frame result are the input's own columns or have
\* storage that no column of the input uses.
LogicallyNew(result, input) ==
  \A k \in 1..Len(df_columns(result)) :
    \/ \E j \in 1..Len(df_columns(input)) :
         df_columns(input)[j] = df_columns(result)[k]
    \/ df_columns(result)[k].data_ \notin storage_of(input)

\* C19: the call of a preprocessor leaves the input frame as it was, its
\* last_change and the values of its columns included, and the frame it
\* returns shares no storage with the input but in columns it took over.
C19_PreprocessorLeavesInputAlone ==
  [][pp_pc' # pp_pc =>
       /\ pp_df' = pp_df
       /\ \A id \in storage_of(pp_df) : heap'[id] = heap[id]
       /\ Len(pp_result') = 1 => LogicallyNew(pp_result'[1], pp_df)]_vars

\* A CategoryTrimmer has returned a frame in which a value of the input's
\* categorical column is trimmed.
C19_Witness ==
  /\ pp_pc = "returned"
  /\ pp_kind = CATEGORY_TRIMMER
  /\ Len(pp_df.categoricals_) = 1
  /\ heap[pp_result[1].categoricals_[1].data_] # heap[pp_df.categoricals_[1].data_]

(***************************************************************************)
(* Determinism of the parallel transform that fit runs to score its        *)
(* candidates (checked under TransformSpec)                                *)
(***************************************************************************)

\* The cache build_rows starts with.
empty_cache(t) ==
  [k \in 1..(Min(LogIter, Len(thread_rownums(t))) * ncols) |-> Fin(0)]

\* The iteration at which build_row raised in thread t, if it did.
raised_at(t) == IF thread_pc[t] = "failed" THEN thread_i[t] ELSE -1

\* The matrix build_rows of thread t leaves when it runs from iteration i
\* on with no other thread running.
RECURSIVE build_rows_alone(_, _, _, _)
build_rows_alone(t, i, cache, feats) ==
  LET rownums == thread_rownums(t)
      flushed == IF i % LogIter = 0 /\ i # 0
                 THEN cache_to_features(rownums, i - LogIter, cache, feats,
                                        ncols)
                 ELSE feats
  IN  IF i >= Len(rownums)
      THEN cache_to_features(rownums, last_begin(Len(rownums)), cache, feats,
                             ncols)
      ELSE IF i = raised_at(t) THEN flushed
      ELSE build_rows_alone(t, i + 1,
             cache_with_row(cache, i, build_row(index_, rownums[i + 1])),
             flushed)

\* The matrix left when the threads t, t + 1, ... run one after the other.
RECURSIVE one_thread_after_the_other(_, _)
one_thread_after_the_other(t, feats) ==
  IF t >= num_threads \/ ncols = 0 THEN feats
  ELSE one_thread_after_the_other(t + 1,
         build_rows_alone(t, 0, empty_cache(t), feats))

\* The matrix transform allocates.
allocated_features ==
  [c \in (0..(population_nrows - 1)) \X (1..ncols) |-> Unwritten]

partition(t) == elements(thread_rownums(t))

\* C26: when build_rows of a thread has finished without raising, every row
\* of the partition of that thread has been copied from the batch cache to
\* the feature matrix with the values build_row computed, whatever the size
\* of the partition relative to the flush batch.
C26_FinishedThreadCopiedItsPartition ==
  \A t \in Spawned :
    (thread_pc[t] = "done" /\ ncols > 0) =>
      \A r \in partition(t) :
        /\ written_by[r] = {t}
        /\ \A j \in 1..ncols : features[<<r, j>>] = build_row(index_, r)[j]

\* C27: the counter of completed rows never exceeds the number of rows the
\* transform processes.
C27_CompletedNeverExceedsTotal ==
  main_pc \in {"spawned", "returned", "thrown"} => num_completed <= total_nrows

\* C28: once spawn_threads has returned or has propagated an exception,
\* every thread it started has terminated, and no step writes to the feature
\* matrix from then on.
C28_AllThreadsJoined ==
  [][SpawnThreadsOver =>
       /\ \A t \in Spawned : thread_pc[t] \in {"done", "failed"}
       /\ features' = features
       /\ thread_pc' = thread_pc]_vars

\* spawn_threads has propagated the exception of thread 0 after another
\* thread had copied rows to the matrix.
C28_Witness ==
  /\ main_pc = "thrown"
  /\ num_threads = 2
  /\ thread_pc[1] = "done"
  /\ \E r \in DOMAIN written_by : written_by[r] = {1}

\* C29: when transform returns the matrix, every row of the partition of a
\* thread in which build_row raised has been computed and copied all the
\* same: a returned matrix has no rows a failure left out.
C29_ReturnedMatrixHasNoFailedRows ==
  main_pc = "returned" =>
    \A t \in Spawned :
      thread_pc[t] = "failed" => \A r \in partition(t) : written_by[r] # {}

(***************************************************************************)
(* The address check of the request handler (checked under ServerSpec)     *)
(***************************************************************************)

\* C24: a connection whose peer address is not 127.0.0.1 is answered with
\* the error about the illegal connection; no command of it is kept, parsed
\* or handed to a handler, and it holds no lock.
C24_OnlyLocalhostServed ==
  \A c \in Cmds :
    srv_peer[c] \notin {None, LOCALHOST} =>
      /\ srv_pc[c] = "idle"
      /\ srv_cmd[c] = NoCommand
      /\ srv_result[c] = ILLEGAL_CONNECTION
      /\ c \notin readers /\ weak_writer # c /\ writer # c

\* A connection from another host has been refused after a connection from
\* localhost was served by another thread.
C24_Witness ==
  \E c, d \in Cmds :
    /\ srv_peer[c] \notin {None, LOCALHOST}
    /\ srv_result[c] = ILLEGAL_CONNECTION
    /\ srv_peer[d] = LOCALHOST
    /\ srv_result[d] \notin {None, ILLEGAL_CONNECTION}

(***************************************************************************)
(* The row count of the columns of a frame (checked under FrameSpec)       *)
(***************************************************************************)

\* Every column of the frame has the row count of every other.
SameRowCount(h, df) ==
  \A i, j \in 1..Len(df_columns(df)) :
    Len(h[df_columns(df)[i].data_]) = Len(h[df_columns(df)[j].data_])

\* The step hands a column whose length is not the row count of the frame
\* to a frame that has columns.
AddsColumnOfOtherLength ==
  /\ Len(fr_heap') = Len(fr_heap) + 1
  /\ Len(df_columns(fr_df)) # 0
  /\ Len(fr_heap'[Len(fr_heap')]) # df_nrows(fr_heap, fr_df)

\* C21: after every column addition and removal all columns of the frame
\* have the same row count, and the addition of a column of another length
\* to a frame that has columns raises and leaves the frame as it was.
C21_ColumnsHaveSameRowCount ==
  [][/\ SameRowCount(fr_heap', fr_df')
     /\ AddsColumnOfOtherLength => (fr_thrown' /\ fr_df' = fr_df)]_vars

\* A frame with two columns of at least one row has refused a column.
C21_Witness ==
  /\ fr_thrown
  /\ Len(df_columns(fr_df)) = 2
  /\ df_nrows(fr_heap, fr_df) > 0

====
